---- MODULE Spec2Model ----
(***************************************************************************)
(* Model of the heuristic extraction and fusion core of the scientific-    *)
(* paper metadata pipeline (src/src/ensemble.ts, src/src/parsers/pdf.ts,   *)
(* utils.ts).                                                              *)
(*                                                                         *)
(* Strings are modelled by what the regular expressions of the code can    *)
(* tell apart:                                                             *)
(*   - a date string is a record [k, y, m, d, p]: k = "iso" for a string   *)
(*     of shape YYYY | YYYY-MM | YYYY-MM-DD (the fields are the digits,    *)
(*     NONE when the part is missing), k = "text" for any other non-empty  *)
(*     string (y is the first four-digit year it holds, m and d the parts  *)
(*     of a numeric Y-sep-M-sep-D occurrence, p the precision the text     *)
(*     names), k = "null" for null/undefined/"" and k = "num" for a        *)
(*     non-string value;                                                   *)
(*   - a text (header + body) is a sequence of tokens;                     *)
(*   - an author string is a sequence of word tokens.                      *)
(* Confidences and fitness values are the code's numbers times 100.        *)
(***************************************************************************)
EXTENDS Integers, Sequences, FiniteSets, TLC

VARIABLES now, pc, args, ret

vars == <<now, pc, args, ret>>

NONE == -1

(***************************************************************************)
(* Bounds of the model.                                                    *)
(***************************************************************************)
MaxTextLen == 3
MaxNumPart == 32
MaxCands == 3
MaxFit == 1
MaxConf == 1
MaxAuthors == 3
MaxLLMAuthors == 1

(* new Date().getFullYear() at the start of the run *)
BaseYear == 2026

(***************************************************************************)
(* Date strings                                                            *)
(***************************************************************************)
NullDate == [k |-> "null", y |-> NONE, m |-> NONE, d |-> NONE, p |-> "none"]

NumDate == [k |-> "num", y |-> NONE, m |-> NONE, d |-> NONE, p |-> "none"]

PrecOf(m, d) == IF m = NONE THEN "Y" ELSE IF d = NONE THEN "YM" ELSE "YMD"

Iso(y, m, d) == [k |-> "iso", y |-> y, m |-> m, d |-> d, p |-> PrecOf(m, d)]

Text(y, m, d, p) == [k |-> "text", y |-> y, m |-> m, d |-> d, p |-> p]

(* (20\d{2}|19\d{2}) *)
IsYearTok(y) == y >= 1900 /\ y <= 2099

IsLeap(y) == (y % 4 = 0 /\ y % 100 # 0) \/ y % 400 = 0

(* new Date(y, m, 0).getDate() for m in 1..12 *)
DaysInMonth(y, m) ==
  IF m = 2 THEN (IF IsLeap(y) THEN 29 ELSE 28)
  ELSE IF m \in {4, 6, 9, 11} THEN 30 ELSE 31

isValidYMD(y, m, d) ==
  IF m < 1 \/ m > 12 THEN FALSE ELSE d >= 1 /\ d <= DaysInMonth(y, m)

isValidISO_NoDayCheck(iso) ==
  IF iso.k # "iso" THEN FALSE
  ELSE IF iso.m = NONE THEN TRUE
  ELSE ~(iso.m < 1 \/ iso.m > 12)

isValidISO(iso) ==
  IF iso.k # "iso" THEN FALSE
  ELSE IF iso.m = NONE THEN TRUE
  ELSE IF iso.m < 1 \/ iso.m > 12 THEN FALSE
  ELSE IF iso.d = NONE THEN TRUE
  ELSE IF iso.d < 1 \/ iso.d > 31 THEN FALSE
  ELSE iso.y >= 100 /\ iso.d <= DaysInMonth(iso.y, iso.m)

toISODate(s) ==
  IF s.k \in {"null"} THEN NullDate
  ELSE IF IsYearTok(s.y) /\ s.m # NONE /\ s.d # NONE THEN Iso(s.y, s.m, s.d)
  ELSE IF IsYearTok(s.y) THEN Iso(s.y, 1, 1)
  ELSE NullDate

(***************************************************************************)
(* Texts: header + "\n" + body as a token sequence.                        *)
(***************************************************************************)
(* tokens: the cue verbs ("tvposted" is "this version posted" / "first
   posted", "published" any other verb of the list), ":" and "-", the three
   day-precision date shapes, a plain word, and the cue words of the
   document-type heuristics *)
CueVerbs == {"posted", "tvposted", "published"}

Seps == {"colon", "dash"}

DayDates == {"mdy", "dmy", "isod"}

TextTokens == {"published", "colon", "mdy", "dmy", "isod", "word"}

SeqsUpTo(S, n) == UNION {[1..k -> S] : k \in 0..n}

Texts == SeqsUpTo(TextTokens, MaxTextLen)

hasPostedDateEvidence(t) ==
  \E i \in 1..Len(t) :
    /\ t[i] \in CueVerbs
    /\ \/ i + 1 <= Len(t) /\ t[i + 1] \in DayDates
       \/ i + 2 <= Len(t) /\ t[i + 1] \in Seps /\ t[i + 2] \in DayDates

(***************************************************************************)
(* sanitizeDocumentDate                                                    *)
(***************************************************************************)
sanitizeDocumentDate_MovingFloor(dateStr, t, force, yr) ==
  IF dateStr.k = "null" THEN NullDate
  ELSE LET iso == IF dateStr.k = "iso" THEN dateStr ELSE toISODate(dateStr)
       IN IF iso.k = "null" THEN NullDate
          ELSE IF iso.y < yr - 126 \/ iso.y > yr + 1 THEN NullDate
          ELSE IF iso.d # NONE /\ ~hasPostedDateEvidence(t) /\ ~force
                 THEN Iso(iso.y, iso.m, NONE)
          ELSE IF isValidISO(iso) THEN iso ELSE NullDate

sanitizeDocumentDate_KeepDay(dateStr, t, force, yr) ==
  IF dateStr.k = "null" THEN NullDate
  ELSE LET iso == IF dateStr.k = "iso" THEN dateStr ELSE toISODate(dateStr)
       IN IF iso.k = "null" THEN NullDate
          ELSE IF iso.y < 1900 \/ iso.y > yr + 1 THEN NullDate
          ELSE IF isValidISO(iso) THEN iso ELSE NullDate

sanitizeDocumentDate_IgnoreForce(dateStr, t, force, yr) ==
  IF dateStr.k = "null" THEN NullDate
  ELSE LET iso == IF dateStr.k = "iso" THEN dateStr ELSE toISODate(dateStr)
       IN IF iso.k = "null" THEN NullDate
          ELSE IF iso.y < 1900 \/ iso.y > yr + 1 THEN NullDate
          ELSE IF iso.d # NONE /\ ~hasPostedDateEvidence(t)
                 THEN Iso(iso.y, iso.m, NONE)
          ELSE IF isValidISO(iso) THEN iso ELSE NullDate

sanitizeDocumentDate(dateStr, t, force, yr) ==
  IF dateStr.k = "null" THEN NullDate
  ELSE LET iso == IF dateStr.k = "iso" THEN dateStr ELSE toISODate(dateStr)
       IN IF iso.k = "null" THEN NullDate
          ELSE IF iso.y < 1900 \/ iso.y > yr + 1 THEN NullDate
          ELSE IF iso.d # NONE /\ ~hasPostedDateEvidence(t) /\ ~force
                 THEN Iso(iso.y, iso.m, NONE)
          ELSE IF isValidISO(iso) THEN iso ELSE NullDate

(***************************************************************************)
(* parseNumericDate on a string holding one numeric date shape:            *)
(*   "YMD" a-sep-b-sep-c = Year-Month-Day, "ABY" a-sep-b-sep-c with c the  *)
(*   year, "YM" a-sep-b = Year-Month, "Y" a = year, "none" no digits.      *)
(***************************************************************************)
parseNumericDate_GuessDay(s) ==
  IF s.shape = "YMD" /\ IsYearTok(s.a) /\ isValidYMD(s.a, s.b, s.c)
    THEN Iso(s.a, s.b, s.c)
  ELSE IF s.shape = "ABY" /\ IsYearTok(s.c) /\ isValidYMD(s.c, s.b, s.a)
    THEN Iso(s.c, s.b, s.a)
  ELSE IF s.shape = "ABY" /\ IsYearTok(s.c) /\ isValidYMD(s.c, s.a, s.b)
    THEN Iso(s.c, s.a, s.b)
  ELSE IF s.shape = "ABY" /\ IsYearTok(s.c) /\ s.a >= 1 /\ s.a <= 12
    THEN Iso(s.c, s.a, NONE)
  ELSE IF s.shape \in {"YMD", "YM"} /\ IsYearTok(s.a) /\ s.b >= 1 /\ s.b <= 12
    THEN Iso(s.a, s.b, NONE)
  ELSE IF s.shape \in {"YMD", "YM", "Y"} /\ IsYearTok(s.a) THEN Iso(s.a, NONE, NONE)
  ELSE IF s.shape = "ABY" /\ IsYearTok(s.c) THEN Iso(s.c, NONE, NONE)
  ELSE NullDate

parseNumericDate(s) ==
  LET mISO == s.shape = "YMD" /\ IsYearTok(s.a)
      mABY == s.shape = "ABY" /\ IsYearTok(s.c)
      mYM  == s.shape \in {"YMD", "YM"} /\ IsYearTok(s.a)
  IN
  IF mISO /\ isValidYMD(s.a, s.b, s.c) THEN Iso(s.a, s.b, s.c)
  ELSE IF mABY /\ s.a > 12 /\ isValidYMD(s.c, s.b, s.a) THEN Iso(s.c, s.b, s.a)
  ELSE IF mABY /\ s.b > 12 /\ isValidYMD(s.c, s.a, s.b) THEN Iso(s.c, s.a, s.b)
  ELSE IF mABY /\ s.a >= 1 /\ s.a <= 12 THEN Iso(s.c, s.a, NONE)
  ELSE IF mYM /\ s.b >= 1 /\ s.b <= 12 THEN Iso(s.a, s.b, NONE)
  ELSE IF s.shape \in {"YMD", "YM", "Y"} /\ IsYearTok(s.a) THEN Iso(s.a, NONE, NONE)
  ELSE IF mABY THEN Iso(s.c, NONE, NONE)
  ELSE NullDate

(***************************************************************************)
(* chooseField: the index of the candidate the loop ends with, then the    *)
(* copy of that candidate.                                                 *)
(***************************************************************************)
RECURSIVE ChooseLoop_LastWins(_, _, _, _)
ChooseLoop_LastWins(cands, fitness, best, i) ==
  IF i > Len(cands) THEN best
  ELSE LET fBest == fitness[cands[best].value]
           fCand == fitness[cands[i].value]
       IN IF fCand > fBest
             \/ (fCand = fBest /\ cands[i].confidence >= cands[best].confidence)
            THEN ChooseLoop_LastWins(cands, fitness, i, i + 1)
            ELSE ChooseLoop_LastWins(cands, fitness, best, i + 1)

RECURSIVE ChooseLoop(_, _, _, _)
ChooseLoop(cands, fitness, best, i) ==
  IF i > Len(cands) THEN best
  ELSE LET fBest == fitness[cands[best].value]
           fCand == fitness[cands[i].value]
       IN IF fCand > fBest
             \/ (fCand = fBest /\ cands[i].confidence > cands[best].confidence)
            THEN ChooseLoop(cands, fitness, i, i + 1)
            ELSE ChooseLoop(cands, fitness, best, i + 1)

chooseField(cands, fitness) == cands[ChooseLoop(cands, fitness, 1, 2)]

(***************************************************************************)
(* Author strings.  A string is a sequence of whitespace-separated tokens; *)
(* a token is [w, c, n]: its lower-cased word, its casing/shape class and  *)
(* its number of characters.  Shape classes: "Cap" = [A-Z][a-z'-]+,        *)
(* "Init" = [A-Z]\. , "Hyph" = [A-Z][a-z]+-[A-Z][a-z]+ , "UPPER" and       *)
(* "other" match none of the three, "degree" is a ", PhD"-like suffix.     *)
(* A list element that is not a string is the value NotAString.            *)
(***************************************************************************)
Tok(w, c, n) == [w |-> w, c |-> c, n |-> n]

NotAString == <<Tok("", "nonstring", 0)>>

ORG_WORDS ==
  {"university", "univ", "institute", "department", "dept", "school", "college",
   "laboratory", "centre", "center", "hospital", "clinic", "commission",
   "authority", "ministry", "agency", "federal", "court", "board", "foundation",
   "trust", "unit", "division", "bureau", "office", "medicine", "medical",
   "health", "healthcare", "science", "sciences", "research", "perinatal",
   "neonatal", "pediatrics", "pediatric", "childrens", "children's", "london",
   "ontario", "canada", "united", "kingdom", "usa"}

DOC_LABELS ==
  {<<"original", "article">>, <<"research", "article">>, <<"review", "article">>,
   <<"systematic", "review">>, <<"meta-analysis">>, <<"meta", "analysis">>,
   <<"brief", "report">>, <<"short", "report">>, <<"short", "communication">>,
   <<"case", "report">>, <<"editorial">>, <<"commentary">>, <<"perspective">>,
   <<"viewpoint">>, <<"protocol">>, <<"special", "article">>, <<"open", "access">>,
   <<"letter", "to", "the", "editor">>, <<"technical", "note">>,
   <<"methods", "article">>, <<"article", "info">>, <<"article", "information">>,
   <<"article", "history">>, <<"how", "to", "cite">>, <<"correspondence">>}

Words(s) == [i \in 1..Len(s) |-> s[i].w]

(* x.includes(p) on the lower-cased, whitespace-collapsed string *)
Includes(ws, lab) ==
  \E i \in 0..(Len(ws) - Len(lab)) :
    \A j \in 1..Len(lab) : ws[i + j] = lab[j]

isDocLabelLine(s) == \E lab \in DOC_LABELS : Includes(Words(s), lab)

hasOrgCue_Never(s) == FALSE

hasOrgCue(s) == \E i \in 1..Len(s) : s[i].w \in ORG_WORDS

(* s.replace(/^\s*by\s+/i, "") *)
StripBy(s) ==
  IF Len(s) >= 2 /\ s[1].w = "by" THEN Tail(s) ELSE s

tokenOK(tok) == tok.c \in {"Cap", "Init", "Hyph"}

RECURSIVE CountGood(_)
CountGood(s) ==
  IF s = <<>> THEN 0
  ELSE (IF tokenOK(Head(s)) THEN 1 ELSE 0) + CountGood(Tail(s))

Max(a, b) == IF a >= b THEN a ELSE b

isLikelyPersonName(s) ==
  LET name == StripBy(s)
  IN IF isDocLabelLine(name) \/ hasOrgCue(name) THEN FALSE
     ELSE IF Len(name) < 2 \/ Len(name) > 5 THEN FALSE
     ELSE CountGood(name) >= Max(2, Len(name) - 1)

(* s.replace(dropDegree, "") *)
RECURSIVE DropDegree(_)
DropDegree(s) ==
  IF s = <<>> THEN <<>>
  ELSE IF Head(s).c = "degree" THEN DropDegree(Tail(s))
  ELSE <<Head(s)>> \o DropDegree(Tail(s))

RECURSIVE SumChars(_)
SumChars(s) == IF s = <<>> THEN 0 ELSE Head(s).n + SumChars(Tail(s))

(* length of the trimmed string with single spaces between tokens *)
Chars(s) == IF s = <<>> THEN 0 ELSE SumChars(s) + Len(s) - 1

Normalize(s) == IF s = NotAString THEN <<>> ELSE StripBy(DropDegree(s))

RECURSIVE FilterNames(_)
FilterNames(a) ==
  IF a = <<>> THEN <<>>
  ELSE LET n == Normalize(Head(a))
       IN IF Chars(n) >= 3 /\ ~isDocLabelLine(n) /\ isLikelyPersonName(n)
            THEN <<n>> \o FilterNames(Tail(a))
            ELSE FilterNames(Tail(a))

RECURSIVE Dedupe(_, _)
Dedupe(a, seen) ==
  IF a = <<>> THEN <<>>
  ELSE IF Words(Head(a)) \in seen THEN Dedupe(Tail(a), seen)
  ELSE <<Head(a)>> \o Dedupe(Tail(a), seen \cup {Words(Head(a))})

AuthorCap == 24

Slice(a, n) == IF Len(a) <= n THEN a ELSE SubSeq(a, 1, n)

(* an author list value: NullList for null/undefined/[] and non-arrays
   without length, StringList for a non-empty string, else the array *)
NullList == [t |-> "null", v |-> <<>>]

StringList == [t |-> "str", v |-> <<>>]

ArrayList(v) == [t |-> "arr", v |-> v]

cleanAuthors(a) ==
  IF a.t # "arr" \/ a.v = <<>> THEN NullList
  ELSE LET out == Dedupe(FilterNames(a.v), {})
       IN IF out = <<>> THEN NullList ELSE ArrayList(Slice(out, AuthorCap))

(***************************************************************************)
(* Document type                                                           *)
(***************************************************************************)
Has(t, tok) == \E i \in 1..Len(t) : t[i] = tok

HasAny(t, toks) == \E i \in 1..Len(t) : t[i] \in toks

B2N(b) == IF b THEN 1 ELSE 0

FullText(sections) == sections.headerText \o sections.body

preprintSignals(sections) ==
  LET t == FullText(sections)
  IN B2N(Has(t, "preprint"))
     + B2N(Has(t, "notpeer"))
     + B2N(HasAny(t, {"ssrn", "ecopy"}))
     + B2N(Has(t, "ssrnlong"))
     + B2N(Has(t, "arxiv"))
     + B2N(Has(t, "medrxiv"))
     + B2N(Has(t, "biorxiv"))
     + B2N(Has(t, "researchsquare"))
     + B2N(Has(t, "ecopy"))
     + B2N(Has(t, "tvposted")
           \/ \E i \in 1..(Len(t) - 2) :
                t[i] = "posted" /\ t[i + 1] = "colon" /\ t[i + 2] = "mdy")

strongPreprintHeuristic(sections) ==
  IF preprintSignals(sections) >= 2 THEN "Preprint" ELSE "null"

(* a document_type value of the LLM: t = "absent" (undefined/null), "empty"
   (""), "blank" (whitespace only), "str" (kw = the keywords it contains) or
   "num" (a truthy non-string) *)
DocType(t, kw) == [t |-> t, kw |-> kw]

normalizeDocType(s) ==
  IF s.t \in {"absent", "empty"} THEN "null"
  ELSE IF "preprint" \in s.kw THEN "Preprint"
  ELSE IF s.kw \cap {"conference", "proceedings", "abstract"} # {} THEN "Conference Paper"
  ELSE IF "journal" \in s.kw THEN "Journal Article"
  ELSE IF s.kw \cap {"thesis", "dissertation"} # {} THEN "Thesis"
  ELSE IF s.t = "blank" THEN "" ELSE "Other"

guessDocumentType_NullDefault(sections) ==
  LET t == sections.headerText
  IN IF preprintSignals(sections) >= 2 THEN "Preprint"
     ELSE IF Has(t, "arxiv") THEN "Preprint"
     ELSE IF HasAny(t, {"proceedings", "springer"}) THEN "Conference Paper"
     ELSE IF Has(t, "doi") /\ HasAny(t, {"journal", "springer"}) THEN "Journal Article"
     ELSE IF Has(t, "thesis") THEN "Thesis"
     ELSE "null"

guessDocumentType(sections) ==
  LET t == sections.headerText
  IN IF preprintSignals(sections) >= 2 THEN "Preprint"
     ELSE IF Has(t, "arxiv") THEN "Preprint"
     ELSE IF HasAny(t, {"proceedings", "springer"}) THEN "Conference Paper"
     ELSE IF Has(t, "doi") /\ HasAny(t, {"journal", "springer"}) THEN "Journal Article"
     ELSE IF Has(t, "thesis") THEN "Thesis"
     ELSE "Journal/Conference Article"

(***************************************************************************)
(* Summaries: a text value is t = "absent", "num" (truthy non-string) or   *)
(* "str" with len = its length after whitespace collapse and trim and      *)
(* letters = whether it holds a letter.                                    *)
(***************************************************************************)
TextVal(t, len, letters) == [t |-> t, len |-> len, letters |-> letters]

NullText == TextVal("absent", 0, FALSE)

SummaryCap == 1200

qualityTextField(v, prov) ==
  LET len == IF v.t = "str" THEN v.len ELSE 0
      hasLetters == v.t = "str" /\ len > 0 /\ v.letters
      c1 == IF hasLetters /\ len >= 30 THEN 85 ELSE 50
      c2 == IF len > SummaryCap THEN Max(c1, 90) ELSE c1
      capped == IF len > SummaryCap THEN TextVal("str", SummaryCap, v.letters)
                ELSE IF len > 0 THEN v ELSE NullText
  IN [value |-> capped, confidence |-> c2, provenance |-> prov]

(***************************************************************************)
(* fuseCandidates                                                          *)
(***************************************************************************)
Field(v, c, prov) == [value |-> v, confidence |-> c, provenance |-> prov]

(* a || b on values whose falsy form is the null value *)
OrList(a, b) == IF a.t = "null" THEN b ELSE a

OrDate(a, b) == IF a.k = "null" THEN b ELSE a

(* parser?.method || "heuristic" *)
MethodOf(parser) == IF parser.present THEN parser.method ELSE "heuristic"

DateFitness_Flat(v) == IF v.k = "null" THEN 0 ELSE 100

DateFitness(v) ==
  IF v.k = "null" THEN 0
  ELSE IF v.k = "iso" /\ v.d # NONE THEN 100
  ELSE IF v.k = "iso" /\ v.m # NONE THEN 80
  ELSE IF v.k = "iso" THEN 60
  ELSE 40

(* the property reads and method calls of fuseCandidates that raise a
   TypeError: llm.document_type on null/undefined, s.toLowerCase() on a
   non-string, a.map on a string, iso.slice / s.match on a non-string,
   v.replace on a non-string *)
RaisesTypeError(llm) ==
  \/ ~llm.present
  \/ llm.document_type.t = "num"
  \/ llm.authors.t = "str"
  \/ llm.document_date.k = "num"
  \/ llm.summary.t = "num"
  \/ llm.methods_summary.t = "num"
  \/ llm.findings_summary.t = "num"

Thrown == [threw |-> TRUE]

FusedDocType(parser, llm, sections) ==
  LET cands == <<Field(normalizeDocType(llm.document_type), 70, "llm"),
                 Field(guessDocumentType(sections), 60, MethodOf(parser))>>
      fit == [v \in {cands[1].value, cands[2].value} |->
                IF v \in {"null", ""} THEN 0 ELSE 1]
      docType == chooseField(cands, fit)
      strongPreprint == strongPreprintHeuristic(sections)
  IN IF strongPreprint # "null" /\ docType.value # "Preprint"
       THEN Field("Preprint", Max(docType.confidence, 90), "heuristic")
       ELSE docType

FusedAuthors(base, parser, llm) ==
  LET authorsParsedRaw ==
        IF parser.present THEN OrList(parser.authors, base.authors) ELSE base.authors
      authorsParsed == cleanAuthors(authorsParsedRaw)
      authorsLLM == cleanAuthors(llm.authors)
      cands == <<Field(authorsParsed, IF authorsParsed.t # "null" THEN 96 ELSE 20,
                       MethodOf(parser)),
                 Field(authorsLLM, IF authorsLLM.t # "null" THEN 72 ELSE 30, "llm")>>
      fit == [v \in {authorsParsed, authorsLLM} |->
                IF v.t = "arr" /\ v.v # <<>> THEN 1 ELSE 0]
  IN chooseField(cands, fit)

FusedDate(base, parser, llm, sections, yr) ==
  LET t == FullText(sections)
      dateParsedRaw ==
        IF parser.present THEN OrDate(parser.document_date, base.document_date)
        ELSE base.document_date
      dateLLMRaw == llm.document_date
      cameFromHeader == parser.present /\ parser.dateFromHeader
      dateParsed == sanitizeDocumentDate(dateParsedRaw, t, cameFromHeader, yr)
      dateLLM == sanitizeDocumentDate(dateLLMRaw, t, FALSE, yr)
      cands == <<Field(dateParsed, IF dateParsed.k # "null" THEN 92 ELSE 20,
                       MethodOf(parser)),
                 Field(dateLLM, IF dateLLM.k # "null" THEN 70 ELSE 30, "llm")>>
      fit == [v \in {dateParsed, dateLLM} |-> DateFitness(v)]
      datePicked == chooseField(cands, fit)
      finalSanitized == sanitizeDocumentDate(datePicked.value, t, cameFromHeader, yr)
  IN Field(finalSanitized,
           IF finalSanitized.k # "null" THEN datePicked.confidence ELSE 20,
           datePicked.provenance)

fuseCandidates(base, parser, llm, sections, yr) ==
  IF RaisesTypeError(llm) THEN Thrown
  ELSE [threw |-> FALSE,
        document_type |-> FusedDocType(parser, llm, sections),
        authors |-> FusedAuthors(base, parser, llm),
        document_date |-> FusedDate(base, parser, llm, sections, yr),
        summary |-> qualityTextField(llm.summary, "llm"),
        methods_summary |-> qualityTextField(llm.methods_summary, "llm"),
        findings_summary |-> qualityTextField(llm.findings_summary, "llm")]

(***************************************************************************)
(* Header lines.  The text handed to the PDF parser is a sequence of       *)
(* trimmed, non-empty lines.  A line is a record of what the parser's      *)
(* regular expressions read from it:                                       *)
(*   len, letters, words, commas  its length, its [A-Za-z] count, its      *)
(*                     whitespace-separated token count, its comma count;  *)
(*   f                 the tests it satisfies: "ignoreAsTitle", "affil"    *)
(*                     (an AFFIL_CUES entry), "digit", "at", "punct"       *)
(*                     ([,:;|]), "by", "stopCue", "doiMark" (doi:),        *)
(*                     "stopLine", "singleCap" (^[A-Z][a-z]+$), "credit",  *)
(*                     "looksLikeRef", "doi" (DOI_RE);                     *)
(*   segs              the segments it splits into after the footnote and  *)
(*                     degree clean-up (author strings, see Tok);          *)
(*   credit            the clauses after "CRediT author statement:";       *)
(*   has               the title tokens that occur in it as substrings;    *)
(*   cue, before, date its cue verb, whether its date stands before the    *)
(*                     cue, and its date;                                  *)
(*   pre               for a line that holds abstract / summary / keywords *)
(*                     / introduction after its first word ("cutWord"):    *)
(*                     the part of the line before that word.              *)
(***************************************************************************)
NoNum == [shape |-> "none", a |-> NONE, b |-> NONE, c |-> NONE]

(* a date of a line: shape "MDY" (Month DD, YYYY), "DMY" (DD Month YYYY),
   "MY" (Month YYYY) with abbr = the month is written in a short form other
   than May and Sept, or "NUM" with num the numeric string *)
DateItem(shape, y, m, d, abbr, num) ==
  [shape |-> shape, y |-> y, m |-> m, d |-> d, abbr |-> abbr, num |-> num]

Line(text, len, letters, words, commas, f, segs) ==
  [text |-> text, len |-> len, letters |-> letters, words |-> words,
   commas |-> commas, f |-> f, segs |-> segs, credit |-> <<>>, has |-> {},
   cue |-> "none", before |-> FALSE,
   date |-> DateItem("none", NONE, NONE, NONE, FALSE, NoNum),
   pre |-> [f |-> {}, segs |-> <<>>]]

(***************************************************************************)
(* sliceAuthorZone                                                         *)
(***************************************************************************)
TitleScan == 20

TitleSkip == 3

ZoneLines == 12

StopScan == 40

(* the title loop: titleIdx, the longest good title of the first lines, 0
   for "none" *)
TitleIdx(lines) ==
  LET isGoodTitle(L) ==
        IF "ignoreAsTitle" \in L.f THEN FALSE
        ELSE IF "affil" \in L.f THEN FALSE
        ELSE IF "digit" \in L.f THEN FALSE
        ELSE IF L.commas >= 3 THEN FALSE
        ELSE L.len >= 20 /\ L.letters * 10 >= 6 * Max(1, L.len)
      last == IF Len(lines) <= TitleScan THEN Len(lines) ELSE TitleScan
      RECURSIVE TitleLoop(_, _, _)
      TitleLoop(i, titleIdx, bestLen) ==
        IF i > last THEN titleIdx
        ELSE IF isGoodTitle(lines[i]) /\ lines[i].len > bestLen
               THEN TitleLoop(i + 1, i, lines[i].len)
        ELSE TitleLoop(i + 1, titleIdx, bestLen)
  IN TitleLoop(1, 0, 0)

looksLikeTitleContinuation(L) ==
  IF "by" \in L.f THEN FALSE
  ELSE IF "stopCue" \in L.f THEN FALSE
  ELSE IF "affil" \in L.f THEN FALSE
  ELSE IF "digit" \in L.f \/ "at" \in L.f THEN FALSE
  ELSE IF "punct" \in L.f THEN FALSE
  ELSE IF L.words < 2 \/ L.words > 15 THEN FALSE
  ELSE L.letters * 10 >= 6 * Max(1, L.len)

(* the skip loop: the index the zone starts at *)
SkipLoop_None(lines, i, skipped) == i

RECURSIVE SkipLoop(_, _, _)
SkipLoop(lines, i, skipped) ==
  IF i <= Len(lines) /\ skipped < TitleSkip /\ looksLikeTitleContinuation(lines[i])
    THEN SkipLoop(lines, i + 1, skipped + 1)
    ELSE i

ZoneStart(lines) ==
  LET titleIdx == TitleIdx(lines)
  IN IF titleIdx >= 1 THEN SkipLoop(lines, titleIdx + 1, 0) ELSE 1

(* one past the last line of the zone: the first stop cue among the lines
   start .. start + 39, else start + 12 *)
ZoneEnd(lines) ==
  LET start == ZoneStart(lines)
      Min(a, b) == IF a <= b THEN a ELSE b
      last == Min(Len(lines), start + StopScan - 1)
      RECURSIVE StopLoop(_)
      StopLoop(i) ==
        IF i > last THEN Min(Len(lines) + 1, start + ZoneLines)
        ELSE IF "stopCue" \in lines[i].f THEN i
        ELSE StopLoop(i + 1)
  IN StopLoop(start)

sliceAuthorZone(lines) ==
  SubSeq(lines, ZoneStart(lines), ZoneEnd(lines) - 1)

(***************************************************************************)
(* extractAuthorsHeuristic(headerChunk), headerChunk the lines of the zone *)
(***************************************************************************)
ZoneLineCap == 60

extractAuthorsHeuristic(headerChunk) ==
  LET (* the zone before the first abstract / summary / keywords /
         introduction; the search index is > 0 whenever the word is found,
         as a zone line never starts with one of them (it would be a stop
         cue) *)
      RECURSIVE CutZone(_)
      CutZone(zone) ==
        IF zone = <<>> THEN <<>>
        ELSE IF "cutWord" \in Head(zone).f THEN <<Head(zone).pre>>
        ELSE <<Head(zone)>> \o CutZone(Tail(zone))
      lines == Slice(CutZone(headerChunk), ZoneLineCap)
      isDocLabel(s) ==
        \E lab \in
            {<<"original", "article">>, <<"research", "article">>,
             <<"review", "article">>, <<"systematic", "review">>,
             <<"meta-analysis">>, <<"meta", "analysis">>, <<"brief", "report">>,
             <<"short", "report">>, <<"short", "communication">>,
             <<"case", "report">>, <<"editorial">>, <<"commentary">>,
             <<"perspective">>, <<"viewpoint">>, <<"protocol">>,
             <<"special", "article">>, <<"open", "access">>,
             <<"letter", "to", "the", "editor">>, <<"technical", "note">>,
             <<"methods", "article">>, <<"article", "info">>,
             <<"article", "information">>, <<"article", "history">>} :
          Includes(Words(s), lab)
      (* stopLine.test(s) on a segment *)
      stopLine(s) ==
        \/ \E i \in 1..Len(s) :
             s[i].w \in
               {"abstract", "summary", "keyword", "keywords", "correspondence",
                "affiliation", "affiliations", "copyright", "journal",
                "received", "accepted", "published", "department", "dept",
                "university", "institute", "school", "college", "hospital",
                "centre", "center", "laboratory", "division", "ministry",
                "agency", "authority", "office", "board", "bureau"}
        \/ Includes(Words(s), <<"author", "information">>)
        \/ Includes(Words(s), <<"how", "to", "cite">>)
      (* the loop over the lines: the segments pushed to parts *)
      RECURSIVE PartsLoop(_)
      PartsLoop(i) ==
        IF i > Len(lines) THEN <<>>
        ELSE LET L == lines[i]
             IN IF "doiMark" \in L.f THEN PartsLoop(i + 1)
                ELSE IF \/ "stopLine" \in L.f
                        \/ \E k \in 1..Len(L.segs) : isDocLabel(L.segs[k])
                  THEN PartsLoop(i + 1)
                ELSE IF "singleCap" \in L.f /\ i + 1 <= Len(lines)
                        /\ "singleCap" \in lines[i + 1].f
                  THEN <<L.segs[1] \o lines[i + 1].segs[1]>> \o PartsLoop(i + 2)
                ELSE L.segs \o PartsLoop(i + 1)
      (* s === s.toUpperCase() ? title case : s *)
      normalizeCaps(s) ==
        IF \A i \in 1..Len(s) : s[i].c \in {"UPPER", "Init"}
          THEN [i \in 1..Len(s) |->
                  IF s[i].c = "UPPER" THEN Tok(s[i].w, "Cap", s[i].n) ELSE s[i]]
          ELSE s
      (* [A-Z][a-zA-Z'-]+ | [A-Z]\. | the hyphenated pair *)
      nameToken(tok) == tok.c \in {"Cap", "Init", "Hyph", "UPPER", "Mixed"}
      RECURSIVE NameCandidates(_)
      NameCandidates(parts) ==
        IF parts = <<>> THEN <<>>
        ELSE LET n == normalizeCaps(Head(parts))
             IN IF /\ ~isDocLabel(n) /\ ~stopLine(n)
                   /\ Len(n) >= 2 /\ Len(n) <= 5
                   /\ \A i \in 1..Len(n) : nameToken(n[i])
                  THEN <<n>> \o NameCandidates(Tail(parts))
                  ELSE NameCandidates(Tail(parts))
      (* for (const n of ...) if (!seen.has(n)) { seen.add(n); out.push(n); } *)
      RECURSIVE DedupeExact(_, _)
      DedupeExact(a, seen) ==
        IF a = <<>> THEN <<>>
        ELSE IF Head(a) \in seen THEN DedupeExact(Tail(a), seen)
        ELSE <<Head(a)>> \o DedupeExact(Tail(a), seen \cup {Head(a)})
      (* the clauses after the first "CRediT author statement:" of the chunk *)
      RECURSIVE CreditBlock(_)
      CreditBlock(chunk) ==
        IF chunk = <<>> THEN <<>>
        ELSE IF "credit" \in Head(chunk).f THEN Head(chunk).credit
        ELSE CreditBlock(Tail(chunk))
      RECURSIVE CreditNames(_)
      CreditNames(clauses) ==
        IF clauses = <<>> THEN <<>>
        ELSE IF Len(Head(clauses)) >= 2
               THEN <<Head(clauses)>> \o CreditNames(Tail(clauses))
        ELSE CreditNames(Tail(clauses))
      out == DedupeExact(NameCandidates(PartsLoop(1)), {})
  IN IF out = <<>>
       THEN Slice(DedupeExact(CreditNames(CreditBlock(headerChunk)), {}), AuthorCap)
       ELSE Slice(out, AuthorCap)

(***************************************************************************)
(* Dates of the text: toISO, parseNumericDate on a window, findRankedDate  *)
(***************************************************************************)
(* monthToMM(m) is map[m.toLowerCase()]: the table holds the full names and
   "sept", so a month written in another short form gives no month *)
toISO(y, m, abbr, d, yr) ==
  IF y < 1900 \/ y > yr + 1 THEN NullDate
  ELSE IF m = NONE THEN Iso(y, NONE, NONE)
  ELSE LET mm == IF abbr THEN NONE ELSE m
       IN IF mm = NONE THEN Iso(y, NONE, NONE)
          ELSE IF d = NONE THEN Iso(y, mm, NONE)
          ELSE IF ~isValidYMD(y, mm, d) THEN NullDate
          ELSE Iso(y, mm, d)

(* parseNumericDate(s) on a text holding the numeric strings nums in order *)
parseNumericDateIn(nums) ==
  LET (* the four patterns on one numeric string *)
      NumMatches(n, pat) ==
        CASE pat = "iso" -> n.shape = "YMD" /\ IsYearTok(n.a)
          [] pat = "aby" -> n.shape = "ABY" /\ IsYearTok(n.c)
          [] pat = "ym"  -> n.shape \in {"YMD", "YM"} /\ IsYearTok(n.a)
          [] pat = "y"   -> \/ n.shape \in {"YMD", "YM", "Y"} /\ IsYearTok(n.a)
                            \/ n.shape = "ABY" /\ IsYearTok(n.c)
      (* s.match(pattern): the index of the first numeric string it
         matches, 0 for no match *)
      RECURSIVE FirstNum(_, _)
      FirstNum(pat, i) ==
        IF i > Len(nums) THEN 0
        ELSE IF NumMatches(nums[i], pat) THEN i
        ELSE FirstNum(pat, i + 1)
      (* the branches of the function on the four matches *)
      Pick(i1, i2, i3, i4) ==
        IF i1 # 0 /\ isValidYMD(nums[i1].a, nums[i1].b, nums[i1].c)
          THEN Iso(nums[i1].a, nums[i1].b, nums[i1].c)
        ELSE IF i2 # 0 /\ nums[i2].a > 12 /\ isValidYMD(nums[i2].c, nums[i2].b, nums[i2].a)
          THEN Iso(nums[i2].c, nums[i2].b, nums[i2].a)
        ELSE IF i2 # 0 /\ nums[i2].b > 12 /\ isValidYMD(nums[i2].c, nums[i2].a, nums[i2].b)
          THEN Iso(nums[i2].c, nums[i2].a, nums[i2].b)
        ELSE IF i2 # 0 /\ nums[i2].a >= 1 /\ nums[i2].a <= 12
          THEN Iso(nums[i2].c, nums[i2].a, NONE)
        ELSE IF i3 # 0 /\ nums[i3].b >= 1 /\ nums[i3].b <= 12
          THEN Iso(nums[i3].a, nums[i3].b, NONE)
        ELSE IF i4 # 0
          THEN Iso(IF nums[i4].shape = "ABY" THEN nums[i4].c ELSE nums[i4].a, NONE, NONE)
        ELSE NullDate
  IN Pick(FirstNum("iso", 1), FirstNum("aby", 1), FirstNum("ym", 1), FirstNum("y", 1))

WindowChars == 180

(* the dates of zone.slice(cueIdx, cueIdx + 180), in order, for the cue of
   line i *)
Window(zone, i) ==
  LET CueChars ==
        CASE zone[i].cue = "posted" -> 6
          [] zone[i].cue = "published" -> 9
          [] zone[i].cue = "accepted" -> 8
          [] zone[i].cue = "received" -> 8
          [] OTHER -> 0
      (* characters from the cue to the end of line j >= i: the cue stands
         first in its line, or last when the line's date is before it *)
      RECURSIVE CharsTo(_)
      CharsTo(j) ==
        IF j = i
          THEN IF zone[i].before THEN CueChars ELSE zone[i].len
          ELSE CharsTo(j - 1) + 1 + zone[j].len
      RECURSIVE From(_)
      From(j) ==
        IF j > Len(zone) \/ CharsTo(j) > WindowChars THEN <<>>
        ELSE (IF zone[j].date.shape = "none" \/ (j = i /\ zone[i].before)
                THEN <<>> ELSE <<zone[j].date>>)
             \o From(j + 1)
  IN From(i)

ScanWindow_DMYFirst(w, yr) ==
  LET RECURSIVE FirstShape(_, _)
      FirstShape(shape, i) ==
        IF i > Len(w) THEN 0
        ELSE IF w[i].shape = shape THEN i
        ELSE FirstShape(shape, i + 1)
      RECURSIVE NumsOf(_)
      NumsOf(v) ==
        IF v = <<>> THEN <<>>
        ELSE (IF Head(v).shape = "NUM" THEN <<Head(v).num>> ELSE <<>>)
             \o NumsOf(Tail(v))
      Found(iso) == [found |-> TRUE, iso |-> iso]
      Pick(mdy, dmy, my, num) ==
        IF dmy # 0 THEN Found(toISO(w[dmy].y, w[dmy].m, w[dmy].abbr, w[dmy].d, yr))
        ELSE IF mdy # 0 THEN Found(toISO(w[mdy].y, w[mdy].m, w[mdy].abbr, w[mdy].d, yr))
        ELSE IF my # 0 THEN Found(toISO(w[my].y, w[my].m, w[my].abbr, NONE, yr))
        ELSE IF num.k # "null" THEN Found(num)
        ELSE [found |-> FALSE, iso |-> NullDate]
  IN Pick(FirstShape("MDY", 1), FirstShape("DMY", 1), FirstShape("MY", 1),
          parseNumericDateIn(NumsOf(w)))

(* what the scan does with the window of one cue: a return (found), or the
   search for the next cue *)
ScanWindow(w, yr) ==
  LET RECURSIVE FirstShape(_, _)
      FirstShape(shape, i) ==
        IF i > Len(w) THEN 0
        ELSE IF w[i].shape = shape THEN i
        ELSE FirstShape(shape, i + 1)
      RECURSIVE NumsOf(_)
      NumsOf(v) ==
        IF v = <<>> THEN <<>>
        ELSE (IF Head(v).shape = "NUM" THEN <<Head(v).num>> ELSE <<>>)
             \o NumsOf(Tail(v))
      Found(iso) == [found |-> TRUE, iso |-> iso]
      (* reMDY, reDMY, reMY, then parseNumericDate, on the window *)
      Pick(mdy, dmy, my, num) ==
        IF mdy # 0 THEN Found(toISO(w[mdy].y, w[mdy].m, w[mdy].abbr, w[mdy].d, yr))
        ELSE IF dmy # 0 THEN Found(toISO(w[dmy].y, w[dmy].m, w[dmy].abbr, w[dmy].d, yr))
        ELSE IF my # 0 THEN Found(toISO(w[my].y, w[my].m, w[my].abbr, NONE, yr))
        ELSE IF num.k # "null" THEN Found(num)
        ELSE [found |-> FALSE, iso |-> NullDate]
  IN Pick(FirstShape("MDY", 1), FirstShape("DMY", 1), FirstShape("MY", 1),
          parseNumericDateIn(NumsOf(w)))

(* the while loop over the cues of one zone, from line i on *)
RECURSIVE ScanZone(_, _, _)
ScanZone(zone, i, yr) ==
  IF i > Len(zone) THEN [found |-> FALSE, iso |-> NullDate]
  ELSE IF zone[i].cue = "none" THEN ScanZone(zone, i + 1, yr)
  ELSE LET Step(r) == IF r.found THEN r ELSE ScanZone(zone, i + 1, yr)
       IN Step(ScanWindow(Window(zone, i), yr))

BodyLineCap == 80

(* the candidate the line-based pass adds for line i (ix = i - 1), score in
   thousandths *)
LineCand(L, ix, yr) ==
  LET d == L.date
      iso == CASE d.shape \in {"MDY", "DMY"} -> toISO(d.y, d.m, d.abbr, d.d, yr)
               [] d.shape = "MY" -> toISO(d.y, d.m, d.abbr, NONE, yr)
               [] d.shape = "NUM" -> parseNumericDate(d.num)
               [] OTHER -> NullDate
      base == IF L.cue # "none"
                THEN CASE d.shape = "MDY" -> 1000 [] d.shape = "DMY" -> 950
                       [] d.shape = "MY" -> 850 [] OTHER -> 800
                ELSE CASE d.shape = "MDY" -> 750 [] d.shape = "DMY" -> 720
                       [] d.shape = "MY" -> 650 [] OTHER -> 550
      skip == L.cue = "none" /\ "looksLikeRef" \in L.f
  IN [iso |-> IF skip THEN NullDate ELSE iso,
      score |-> base + Max(0, 150 - 2 * ix), ix |-> ix]

findRankedDate(header, full, yr) ==
  LET lines == header \o Slice(full, BodyLineCap)
      (* cands.sort((a, b) => b.score - a.score || a.ix - b.ix)[0] *)
      best(cands) ==
        CHOOSE c \in cands :
          \A o \in cands :
            c.score > o.score \/ (c.score = o.score /\ c.ix <= o.ix)
      (* the scan of the header, the scan of the text, the line-based pass *)
      Pick(inH, inT, cands) ==
        IF inH.found THEN inH.iso
        ELSE IF inT.found THEN inT.iso
        ELSE IF cands = {} THEN NullDate
        ELSE best(cands).iso
  IN Pick(ScanZone(header, 1, yr), ScanZone(full, 1, yr),
          {c \in {LineCand(lines[i], i - 1, yr) : i \in 1..Len(lines)} :
             c.iso.k # "null"})

HeaderDayLines == 120

headerHasExplicitDay_AllLines(header) ==
  \E i \in 1..Len(header) :
    /\ "looksLikeRef" \notin header[i].f
    /\ \/ header[i].date.shape \in {"MDY", "DMY"}
       \/ /\ header[i].date.shape = "NUM"
          /\ header[i].date.num.shape = "YMD" /\ IsYearTok(header[i].date.num.a)
          /\ isValidYMD(header[i].date.num.a, header[i].date.num.b,
                        header[i].date.num.c)

(* the written forms of the catalogue's dates ("March 9, 2021",
   "9 March 2021") are the ones reMDY / reDMY of this function accept *)
headerHasExplicitDay(header) ==
  \E i \in 1..(IF Len(header) <= HeaderDayLines THEN Len(header) ELSE HeaderDayLines) :
    /\ "looksLikeRef" \notin header[i].f
    /\ \/ header[i].date.shape \in {"MDY", "DMY"}
       \/ /\ header[i].date.shape = "NUM"
          /\ header[i].date.num.shape = "YMD" /\ IsYearTok(header[i].date.num.a)
          /\ isValidYMD(header[i].date.num.a, header[i].date.num.b,
                        header[i].date.num.c)

(* info.CreationDate: t = "absent", "D" (D:YYYYMMDD...) or "other" *)
parsePdfCreationDate(d) ==
  IF d.t = "D" THEN Iso(d.y, d.m, d.d) ELSE NullDate

(***************************************************************************)
(* Crossref: fetchCrossref on the response the lookup meets, and the title *)
(* check.  A response is [kind, message]; kind = "abort" (the timeout      *)
(* fired), "network" (fetch rejected), "status" (res.ok is false),         *)
(* "badjson" (res.json() rejected), "nomessage", "badauthor" (an author    *)
(* array holding null) or "ok".  A title is [t, toks]: t = "absent" (no    *)
(* title member), "empty" ("" or []) or "str"; toks its tokens [w, n]      *)
(* after lower-casing and replacing [^a-z0-9\s] by spaces.  The result of  *)
(* the call is [threw, value]: its promise rejected, or resolved to value. *)
(***************************************************************************)
NoCr ==
  [present |-> FALSE, authors |-> NullList, date |-> NullDate,
   title |-> [t |-> "absent", toks |-> <<>>]]

(* the object fetchCrossref returns for the message m *)
CrossrefMeta(m) ==
  LET (* a date-parts entry [y, m, d], 0 for a missing or falsy part; years
         of the catalogue have four digits *)
      RECURSIVE pickDate(_)
      pickDate(cands) ==
        IF cands = <<>> THEN NullDate
        ELSE LET parts == Head(cands)
             IN IF parts.y = 0 THEN pickDate(Tail(cands))
                ELSE IF parts.m # 0 /\ parts.d # 0
                  THEN Iso(parts.y, parts.m, parts.d)
                ELSE IF parts.m # 0 THEN Iso(parts.y, parts.m, NONE)
                ELSE Iso(parts.y, NONE, NONE)
      (* [a.given, a.family].filter(Boolean).join(" ").trim(), kept if
         longer than one character *)
      RECURSIVE Names(_)
      Names(author) ==
        IF author = <<>> THEN <<>>
        ELSE LET name == Head(author).given \o Head(author).family
             IN IF Chars(name) > 1 THEN <<name>> \o Names(Tail(author))
                ELSE Names(Tail(author))
      authors == IF m.author.t = "arr" THEN Names(m.author.v) ELSE <<>>
  IN [present |-> TRUE,
      authors |-> IF authors # <<>> THEN ArrayList(authors) ELSE NullList,
      date |-> pickDate(m.dates),
      title |-> m.title]

fetchCrossref_NoCatch(resp) ==
  IF resp.kind \in {"abort", "network", "badjson", "badauthor"}
    THEN [threw |-> TRUE, value |-> NoCr]
  ELSE IF resp.kind \in {"status", "nomessage"}
    THEN [threw |-> FALSE, value |-> NoCr]
  ELSE [threw |-> FALSE, value |-> CrossrefMeta(resp.message)]

fetchCrossref(resp) ==
  IF resp.kind \in {"abort", "network"} THEN [threw |-> FALSE, value |-> NoCr]
  ELSE IF resp.kind = "status" THEN [threw |-> FALSE, value |-> NoCr]
  ELSE IF resp.kind = "badjson" THEN [threw |-> FALSE, value |-> NoCr]
  ELSE IF resp.kind = "nomessage" THEN [threw |-> FALSE, value |-> NoCr]
  ELSE IF resp.kind = "badauthor" THEN [threw |-> FALSE, value |-> NoCr]
  ELSE [threw |-> FALSE, value |-> CrossrefMeta(resp.message)]

TitleTokLen == 3

looksLikeSameWork_Always(crTitle, header) == TRUE

looksLikeSameWork(crTitle, header) ==
  LET LongTok(tok) == tok.n >= TitleTokLen
      toks == SelectSeq(crTitle.toks, LongTok)
      (* h.includes(w) *)
      HeaderIncludes(w) == \E i \in 1..Len(header) : w \in header[i].has
      RECURSIVE Hits(_)
      Hits(ts) ==
        IF ts = <<>> THEN 0
        ELSE B2N(HeaderIncludes(Head(ts).w)) + Hits(Tail(ts))
  IN IF crTitle.toks = <<>> THEN FALSE
     ELSE IF toks = <<>> THEN FALSE
     ELSE Hits(toks) * 100 >= 65 * Len(toks)

(***************************************************************************)
(* parseWithPdfParse on the normalized text raw (its lines), the PDF's     *)
(* info.CreationDate and the response a Crossref lookup meets.  The texts  *)
(* of the model are shorter than 12000 characters, so headerText is raw.   *)
(* The result holds the intermediate values next to the returned document  *)
(* (zoneStart and zoneEnd: the zone is the lines zoneStart .. zoneEnd - 1).*)
(***************************************************************************)
(* a ParsedDoc: method, candidates.authors, candidates.document_date and
   meta.dateFromHeader *)
Parser(method, authors, date, dfh) ==
  [present |-> TRUE, method |-> method, authors |-> authors,
   document_date |-> date, dateFromHeader |-> dfh]

BestDate_CreationFirst(authorityDate, ranked, created) ==
  OrDate(authorityDate, OrDate(created, ranked))

(* authorityDate || findRankedDate(...) || parsePdfCreationDate(...) || null *)
BestDate(authorityDate, ranked, created) ==
  OrDate(authorityDate, OrDate(ranked, created))

parseWithPdfParse(raw, info, resp, yr) ==
  LET headerText == raw
      (* extractDOI(headerText) is not null *)
      doi == \E i \in 1..Len(headerText) : "doi" \in headerText[i].f
      fetched == fetchCrossref(resp)
      (* the document from the lookup's result, the author zone and the
         ranked date *)
      Assemble(cr, authorZone, ranked) ==
        LET trusted == /\ cr.present
                       /\ \/ cr.title.t \in {"absent", "empty"}
                          \/ looksLikeSameWork(cr.title, headerText)
            authorityAuthors == IF trusted THEN cr.authors ELSE NullList
            authorityDate == IF trusted THEN cr.date ELSE NullDate
            authorsHeu == extractAuthorsHeuristic(authorZone)
            bestAuthors == IF authorityAuthors.t = "arr" /\ authorityAuthors.v # <<>>
                             THEN authorityAuthors
                           ELSE IF authorsHeu # <<>> THEN ArrayList(authorsHeu)
                           ELSE NullList
            bestDate == BestDate(authorityDate, ranked, parsePdfCreationDate(info))
            headerDayFlag == /\ bestDate.k # "null"
                             /\ bestDate.m # NONE /\ bestDate.d # NONE
                             /\ headerHasExplicitDay(headerText)
            method == IF authorityAuthors.t # "null" \/ authorityDate.k # "null"
                        THEN "authority" ELSE "heuristic"
        IN [doc |-> Parser(method, bestAuthors, bestDate, headerDayFlag),
            doi |-> doi, cr |-> cr, trusted |-> trusted,
            zoneStart |-> ZoneStart(headerText), zoneEnd |-> ZoneEnd(headerText),
            authorZone |-> authorZone, authorsHeu |-> authorsHeu, ranked |-> ranked]
  IN Assemble(IF doi /\ ~fetched.threw THEN fetched.value ELSE NoCr,
              sliceAuthorZone(headerText), findRankedDate(headerText, raw, yr))

(***************************************************************************)
(* Inputs                                                                  *)
(***************************************************************************)
Years(yr) == {1899, 1900, 2024, yr + 1, yr + 2}

TextYears(yr) == {1899, 2024, yr + 2}

Months == {0, 2, 12, 13}

Days == {0, 29, 31, 32}

IsoDates(yr) ==
  {Iso(y, NONE, NONE) : y \in Years(yr)}
  \cup {Iso(y, m, NONE) : y \in Years(yr), m \in Months}
  \cup {Iso(y, m, d) : y \in Years(yr), m \in Months, d \in Days}

TextDates(yr) ==
  {Text(y, m, d, "YMD") : y \in TextYears(yr), m \in Months, d \in Days}
  \cup {Text(y, NONE, NONE, p) : y \in TextYears(yr), p \in {"Y", "YM", "YMD"}}
  \cup {Text(NONE, NONE, NONE, "none")}

RawDates(yr) == IsoDates(yr) \cup TextDates(yr) \cup {NullDate}

NumParts == 0..MaxNumPart

NumYears == {1899, 1900, 2023, 2024, 2100}

NumStrings ==
  [shape : {"YMD"}, a : NumYears, b : {0, 2, 12, 13}, c : {0, 29, 30, 32}]
  \cup [shape : {"ABY"}, a : NumParts, b : NumParts, c : NumYears]
  \cup [shape : {"YM"}, a : NumYears, b : {0, 2, 12, 13}, c : {NONE}]
  \cup [shape : {"Y"}, a : NumYears, b : {NONE}, c : {NONE}]
  \cup [shape : {"none"}, a : {NONE}, b : {NONE}, c : {NONE}]

CandValues == {"a", "b"}

Provenances == {"llm", "heuristic"}

Cands == [value : CandValues, confidence : 0..MaxConf, provenance : Provenances]

CandLists == UNION {[1..k -> Cands] : k \in 1..MaxCands}

Fitnesses == [CandValues -> 0..MaxFit]

(* author strings of the fusion inputs *)
JessicaAnnGomez == <<Tok("jessica", "Cap", 7), Tok("ann", "Cap", 3), Tok("gomez", "Cap", 5)>>

JessicaANNGomez == <<Tok("jessica", "Cap", 7), Tok("ann", "UPPER", 3), Tok("gomez", "Cap", 5)>>

KarlaAbela == <<Tok("karla", "Cap", 5), Tok("abela", "Cap", 5)>>

KarlaAbelaPhD == <<Tok("karla", "Cap", 5), Tok("abela", "Cap", 5), Tok("phd", "degree", 5)>>

ImperialCollegeLondon ==
  <<Tok("imperial", "Cap", 8), Tok("college", "Cap", 7), Tok("london", "Cap", 6)>>

OriginalArticle == <<Tok("original", "Cap", 8), Tok("article", "Cap", 7)>>

AuthorStrings ==
  {JessicaAnnGomez, JessicaANNGomez, KarlaAbela, KarlaAbelaPhD,
   ImperialCollegeLondon, OriginalArticle, NotAString}

AuthorLists ==
  {NullList} \cup {ArrayList(v) : v \in SeqsUpTo(AuthorStrings, MaxAuthors)}

LLMAuthorLists ==
  {NullList, StringList, [t |-> "num", v |-> <<>>]}
  \cup {ArrayList(v) : v \in SeqsUpTo(AuthorStrings, MaxLLMAuthors)}

Methods == {"heuristic", "authority", "grobid", "unstructured"}

FuseYears(yr) == {1899, 1900, 2024, yr + 1, yr + 2}

FuseDates(yr) ==
  {Iso(y, NONE, NONE) : y \in FuseYears(yr)}
  \cup {Iso(y, m, NONE) : y \in FuseYears(yr), m \in {2, 13}}
  \cup {Iso(y, m, d) : y \in FuseYears(yr), m \in {2, 13}, d \in {29, 31}}
  \cup {Text(2024, 2, 29, "YMD"), Text(2024, NONE, NONE, "Y"),
        Text(2024, NONE, NONE, "YM"), Text(2024, NONE, NONE, "YMD"),
        Text(NONE, NONE, NONE, "none"), NullDate}

Sec(h, b) == [headerText |-> h, body |-> b]

EmptySections == Sec(<<>>, <<>>)

DateSections ==
  {EmptySections,
   Sec(<<"word">>, <<"word">>),
   Sec(<<"published", "mdy">>, <<"published", "mdy">>),
   Sec(<<"posted", "colon", "isod">>, <<>>),
   Sec(<<"word", "published">>, <<"dmy", "word">>),
   Sec(<<"mdy", "published">>, <<"mdy", "published">>),
   Sec(<<"published", "word", "isod">>, <<>>)}

TypeSections ==
  {EmptySections,
   Sec(<<"preprint">>, <<"word">>),
   Sec(<<"word">>, <<"preprint", "ssrn">>),
   Sec(<<"arxiv">>, <<>>),
   Sec(<<"word">>, <<"arxiv">>),
   Sec(<<"posted", "colon", "mdy">>, <<"ecopy">>),
   Sec(<<"proceedings">>, <<>>),
   Sec(<<"doi", "journal">>, <<>>),
   Sec(<<"thesis">>, <<>>)}

EmptyBase == [authors |-> NullList, document_date |-> NullDate]

NoParser ==
  [present |-> FALSE, method |-> "heuristic", authors |-> NullList,
   document_date |-> NullDate, dateFromHeader |-> FALSE]

NoDocType == DocType("absent", {})

(* the result {} of the tests: every field absent *)
EmptyLLM ==
  [present |-> TRUE, document_type |-> NoDocType, authors |-> NullList,
   document_date |-> NullDate, summary |-> NullText,
   methods_summary |-> NullText, findings_summary |-> NullText]

NoLLM == [EmptyLLM EXCEPT !.present = FALSE]

In(base, parser, llm, sections) ==
  [base |-> base, parser |-> parser, llm |-> llm, sections |-> sections]

DocTypes ==
  {NoDocType, DocType("empty", {}), DocType("blank", {}), DocType("num", {}),
   DocType("str", {}), DocType("str", {"preprint"}), DocType("str", {"journal"}),
   DocType("str", {"journal", "conference"}), DocType("str", {"thesis"})}

Summaries ==
  {NullText, TextVal("num", 0, FALSE), TextVal("str", 0, FALSE),
   TextVal("str", 29, TRUE), TextVal("str", 30, TRUE), TextVal("str", 30, FALSE),
   TextVal("str", SummaryCap, TRUE), TextVal("str", SummaryCap + 1, FALSE)}

UnstructuredNoCands == Parser("unstructured", NullList, NullDate, FALSE)

(***************************************************************************)
(* Lines of the texts handed to the PDF parser: HeaderLine.X is the record  *)
(* read from the quoted line above X                                       *)
(***************************************************************************)
HeaderLine ==
  [(* "Umbilical arterial catheter duration as risk factor for Bell s Stage III necrotizing enterocolitis" *)
   TitleLine |->
      [Line("TitleLine", 98, 85, 14, 0, {},
              <<<<Tok("umbilical", "Cap", 9), Tok("arterial", "other", 8), Tok("catheter", "other", 8), Tok("duration", "other", 8), Tok("as", "other", 2), Tok("risk", "other", 4), Tok("factor", "other", 6), Tok("for", "other", 3), Tok("bell", "Cap", 4), Tok("s", "other", 1), Tok("stage", "Cap", 5), Tok("iii", "UPPER", 3), Tok("necrotizing", "other", 11), Tok("enterocolitis", "other", 13)>>>>)
       EXCEPT !.has = {"umbilical", "arterial", "catheter", "duration", "risk", "factor", "art"}],
   (* "Necrotizing Enterocolitis" *)
   TitleFragment |->
      Line("TitleFragment", 25, 24, 2, 0, {},
           <<<<Tok("necrotizing", "Cap", 11), Tok("enterocolitis", "Cap", 13)>>>>),
   (* "in very preterm infants" *)
   LowerFragment |->
      Line("LowerFragment", 23, 20, 4, 0, {},
           <<<<Tok("in", "other", 2), Tok("very", "other", 4), Tok("preterm", "other", 7), Tok("infants", "other", 7)>>>>),
   (* "Renjini Lalitha" *)
   RenjiniLalitha |->
      Line("RenjiniLalitha", 15, 14, 2, 0, {},
           <<<<Tok("renjini", "Cap", 7), Tok("lalitha", "Cap", 7)>>>>),
   (* "Matthew Hicks, Mosarrat Qureshi" *)
   HicksQureshi |->
      Line("HicksQureshi", 31, 27, 4, 1, {"punct"},
           <<<<Tok("matthew", "Cap", 7), Tok("hicks", "Cap", 5)>>,
             <<Tok("mosarrat", "Cap", 8), Tok("qureshi", "Cap", 7)>>>>),
   (* "Abstract" *)
   AbstractLine |->
      Line("AbstractLine", 8, 8, 1, 0, {"stopCue", "stopLine", "singleCap", "looksLikeRef"},
           <<<<Tok("abstract", "Cap", 8)>>>>),
   (* "Department of Pediatrics, University of Alberta" *)
   AffilLine |->
      [Line("AffilLine", 47, 41, 6, 1, {"affil", "punct", "stopLine"},
              <<<<Tok("department", "Cap", 10), Tok("of", "other", 2), Tok("pediatrics", "Cap", 10)>>,
                <<Tok("university", "Cap", 10), Tok("of", "other", 2), Tok("alberta", "Cap", 7)>>>>)
       EXCEPT !.has = {"art"}],
   (* "CRediT author statement: All authors contributed equally to this work." *)
   CreditLine |->
      [Line("CreditLine", 70, 59, 10, 0, {"punct", "credit"},
              <<<<Tok("credit", "Mixed", 6), Tok("author", "other", 6), Tok("statement:", "other", 10), Tok("all", "Cap", 3), Tok("authors", "other", 7), Tok("contributed", "other", 11), Tok("equally", "other", 7), Tok("to", "other", 2), Tok("this", "other", 4), Tok("work.", "other", 5)>>>>)
       EXCEPT !.credit = <<<<Tok("all", "Cap", 3), Tok("authors", "other", 7), Tok("contributed", "other", 11), Tok("equally", "other", 7), Tok("to", "other", 2), Tok("this", "other", 4), Tok("work", "other", 4)>>>>],
   (* "Karla Abela, Karla ABELA" *)
   CaseVariants |->
      Line("CaseVariants", 24, 20, 4, 1, {"punct"},
           <<<<Tok("karla", "Cap", 5), Tok("abela", "Cap", 5)>>,
             <<Tok("karla", "Cap", 5), Tok("abela", "UPPER", 5)>>>>),
   (* "KARLA ABELA, JESSICA GOMEZ" *)
   AllCapsNames |->
      Line("AllCapsNames", 26, 22, 4, 1, {"punct"},
           <<<<Tok("karla", "UPPER", 5), Tok("abela", "UPPER", 5)>>,
             <<Tok("jessica", "UPPER", 7), Tok("gomez", "UPPER", 5)>>>>),
   (* "Cheryl" *)
   Cheryl |->
      Line("Cheryl", 6, 6, 1, 0, {"singleCap"},
           <<<<Tok("cheryl", "Cap", 6)>>>>),
   (* "Battersby" *)
   Battersby |->
      Line("Battersby", 9, 9, 1, 0, {"singleCap"},
           <<<<Tok("battersby", "Cap", 9)>>>>),
   (* "Case Report" *)
   CaseReport |->
      Line("CaseReport", 11, 10, 2, 0, {},
           <<<<Tok("case", "Cap", 4), Tok("report", "Cap", 6)>>>>),
   (* "Kumar Kumaran PhD1" *)
   KumaranPhD |->
      Line("KumaranPhD", 18, 15, 3, 0, {"digit"},
           <<<<Tok("kumar", "Cap", 5), Tok("kumaran", "Cap", 7)>>>>),
   (* "By Mosarrat Qureshi" *)
   ByQureshi |->
      Line("ByQureshi", 19, 17, 3, 0, {"by"},
           <<<<Tok("mosarrat", "Cap", 8), Tok("qureshi", "Cap", 7)>>>>),
   (* "Matthew Hicks Executive summary" *)
   HicksSummary |->
      [Line("HicksSummary", 31, 28, 4, 0, {"stopLine", "cutWord"},
              <<<<Tok("matthew", "Cap", 7), Tok("hicks", "Cap", 5), Tok("executive", "Cap", 9), Tok("summary", "other", 7)>>>>)
       EXCEPT !.pre = [f |-> {}, segs |-> <<<<Tok("matthew", "Cap", 7), Tok("hicks", "Cap", 5), Tok("executive", "Cap", 9)>>>>]],
   (* "https://doi.org/10.1234/abcd.5678" *)
   DoiLine |->
      Line("DoiLine", 33, 15, 1, 0, {"digit", "punct", "doi"},
           <<<<Tok("https:", "other", 6)>>,
             <<Tok("doi.org", "other", 7)>>,
             <<Tok(".", "other", 1)>>,
             <<Tok("abcd.", "other", 5)>>>>),
   (* "Received: January 5, 2020" *)
   ReceivedMDY |->
      [Line("ReceivedMDY", 25, 15, 4, 1, {"digit", "punct", "stopLine"},
              <<<<Tok("received:", "other", 9), Tok("january", "Cap", 7)>>>>)
       EXCEPT !.cue = "received",
              !.date = DateItem("MDY", 2020, 1, 5, FALSE, NoNum)],
   (* "Accepted: 9 March 2021" *)
   AcceptedDMY |->
      [Line("AcceptedDMY", 22, 13, 4, 0, {"digit", "punct", "stopLine"},
              <<<<Tok("accepted:", "other", 9), Tok("march", "Cap", 5)>>>>)
       EXCEPT !.cue = "accepted",
              !.date = DateItem("DMY", 2021, 3, 9, FALSE, NoNum)],
   (* "Published: April 9, 2022" *)
   PublishedMDY |->
      [Line("PublishedMDY", 24, 14, 4, 1, {"digit", "punct", "stopLine"},
              <<<<Tok("published:", "other", 10), Tok("april", "Cap", 5)>>>>)
       EXCEPT !.cue = "published",
              !.date = DateItem("MDY", 2022, 4, 9, FALSE, NoNum)],
   (* "Posted: June 2023" *)
   PostedMY |->
      [Line("PostedMY", 17, 10, 3, 0, {"digit", "punct"},
              <<<<Tok("posted:", "other", 7), Tok("june", "Cap", 4)>>>>)
       EXCEPT !.cue = "posted",
              !.date = DateItem("MY", 2023, 6, NONE, FALSE, NoNum)],
   (* "Received: 05/06/2023" *)
   ReceivedAmbiguous |->
      [Line("ReceivedAmbiguous", 20, 8, 2, 0, {"digit", "punct", "stopLine"},
              <<<<Tok("received:", "other", 9)>>>>)
       EXCEPT !.cue = "received",
              !.date = DateItem("NUM", NONE, NONE, NONE, FALSE,
                               [shape |-> "ABY", a |-> 5, b |-> 6, c |-> 2023])],
   (* "Published 2050-01-01" *)
   Published2050 |->
      [Line("Published2050", 20, 9, 2, 0, {"affil", "digit", "stopLine"},
              <<<<Tok("published", "Cap", 9), Tok("--", "other", 2)>>>>)
       EXCEPT !.cue = "published",
              !.date = DateItem("NUM", NONE, NONE, NONE, FALSE,
                               [shape |-> "YMD", a |-> 2050, b |-> 1, c |-> 1])],
   (* "Published June 5, 1850" *)
   Published1850 |->
      [Line("Published1850", 22, 13, 4, 1, {"digit", "punct", "stopLine"},
              <<<<Tok("published", "Cap", 9), Tok("june", "Cap", 4)>>>>)
       EXCEPT !.cue = "published",
              !.date = DateItem("MDY", 1850, 6, 5, FALSE, NoNum)],
   (* "January 5, 2020 (received)" *)
   DateThenReceived |->
      [Line("DateThenReceived", 26, 15, 4, 1, {"digit", "punct", "stopLine"},
              <<<<Tok("january", "Cap", 7)>>,
                <<Tok("(received)", "other", 10)>>>>)
       EXCEPT !.cue = "received",
              !.before = TRUE,
              !.date = DateItem("MDY", 2020, 1, 5, FALSE, NoNum)],
   (* "12 June 2019" *)
   BareDMY |->
      [Line("BareDMY", 12, 4, 3, 0, {"digit"},
              <<<<Tok("june", "Cap", 4)>>>>)
       EXCEPT !.date = DateItem("DMY", 2019, 6, 12, FALSE, NoNum)],
   (* "30 February 2021" *)
   BadDMY |->
      [Line("BadDMY", 16, 8, 3, 0, {"digit"},
              <<<<Tok("february", "Cap", 8)>>>>)
       EXCEPT !.date = DateItem("DMY", 2021, 2, 30, FALSE, NoNum)],
   (* "Published: March 3, 2028": the year is the second after BaseYear *)
   PublishedSoon |->
      [Line("PublishedSoon", 24, 14, 4, 1, {"digit", "punct", "stopLine"},
              <<<<Tok("published:", "other", 10), Tok("march", "Cap", 5)>>>>)
       EXCEPT !.cue = "published",
              !.date = DateItem("MDY", BaseYear + 2, 3, 3, FALSE, NoNum)],
   (* "Smith J. Outcomes. Lancet 2018;5" *)
   RefYear |->
      [Line("RefYear", 32, 20, 5, 0, {"digit", "punct", "looksLikeRef"},
              <<<<Tok("smith", "Cap", 5), Tok("j.", "Init", 2), Tok("outcomes.", "other", 9), Tok("lancet", "Cap", 6)>>>>)
       EXCEPT !.has = {"outcomes"},
              !.date = DateItem("NUM", NONE, NONE, NONE, FALSE,
                               [shape |-> "Y", a |-> 2018, b |-> NONE, c |-> NONE])],
   (* "Jan 5, 2021" *)
   AbbrevMDY |->
      [Line("AbbrevMDY", 11, 3, 3, 1, {"digit", "punct"},
              <<<<Tok("jan", "Cap", 3)>>>>)
       EXCEPT !.date = DateItem("MDY", 2021, 1, 5, TRUE, NoNum)],
   (* "This study was approved by the local ethics board and all parents gave written informed consent before enrolment of their infants into the cohort, which ran over several consecutive winter seasons" *)
   Filler |->
      Line("Filler", 196, 165, 31, 1, {"punct", "stopLine"},
           <<<<Tok("this", "Cap", 4), Tok("study", "other", 5), Tok("was", "other", 3), Tok("approved", "other", 8), Tok("by", "other", 2), Tok("the", "other", 3), Tok("local", "other", 5), Tok("ethics", "other", 6), Tok("board", "other", 5)>>,
             <<Tok("all", "other", 3), Tok("parents", "other", 7), Tok("gave", "other", 4), Tok("written", "other", 7), Tok("informed", "other", 8), Tok("consent", "other", 7), Tok("before", "other", 6), Tok("enrolment", "other", 9), Tok("of", "other", 2), Tok("their", "other", 5), Tok("infants", "other", 7), Tok("into", "other", 4), Tok("the", "other", 3), Tok("cohort", "other", 6)>>,
             <<Tok("which", "other", 5), Tok("ran", "other", 3), Tok("over", "other", 4), Tok("several", "other", 7), Tok("consecutive", "other", 11), Tok("winter", "other", 6), Tok("seasons", "other", 7)>>>>)]

MaxHeaderLines == 5

MaxNameLines == 2

MaxDateLines == 3

MaxZoneRun == 121

MaxClockYears == 1

WrapLines ==
  LET h == HeaderLine
  IN {h.TitleLine, h.TitleFragment, h.LowerFragment, h.HicksQureshi,
      h.AbstractLine}

NameLines ==
  LET h == HeaderLine
  IN {h.AffilLine, h.CreditLine, h.CaseVariants, h.AllCapsNames, h.Cheryl,
      h.Battersby, h.CaseReport, h.KumaranPhD, h.ByQureshi, h.HicksSummary,
      h.RenjiniLalitha}

DateLines ==
  LET h == HeaderLine
  IN {h.ReceivedMDY, h.AcceptedDMY, h.PublishedMDY, h.PostedMY,
      h.ReceivedAmbiguous, h.Published2050, h.Published1850,
      h.DateThenReceived, h.BareDMY, h.BadDMY, h.RefYear, h.AbbrevMDY,
      h.Filler}

(* info.CreationDate: none, "D:20240101112233Z", "D:20241345", "2024-01-01" *)
NoCreationDate == [t |-> "absent", y |-> NONE, m |-> NONE, d |-> NONE]

CreationDates ==
  {NoCreationDate, [t |-> "D", y |-> 2024, m |-> 1, d |-> 1],
   [t |-> "D", y |-> 2024, m |-> 13, d |-> 45],
   [t |-> "other", y |-> NONE, m |-> NONE, d |-> NONE]}

(* the body of a response that has no message *)
NoMessage ==
  [author |-> [t |-> "absent", v |-> <<>>], dates |-> <<>>,
   title |-> [t |-> "absent", toks |-> <<>>]]

Failures == {"abort", "network", "status", "badjson", "nomessage", "badauthor"}

(* what the lookup can meet: a failure, or a message with its author array,
   its date-parts (of published-print, published-online, issued, created)
   and its title *)
Responses ==
  LET TTok(w, n) == [w |-> w, n |-> n]
      Title(toks) == [t |-> "str", toks |-> toks]
      (* "Umbilical arterial catheter duration as risk factor", "Umbilical
         catheter thrombosis", "Umbilical arterial catheter thrombosis
         outcomes", "Quantum gravity", "Art: risk", "On it", "!!!", "", no
         title *)
      Titles ==
        {Title(<<TTok("umbilical", 9), TTok("arterial", 8), TTok("catheter", 8),
                 TTok("duration", 8), TTok("as", 2), TTok("risk", 4),
                 TTok("factor", 6)>>),
         Title(<<TTok("umbilical", 9), TTok("catheter", 8), TTok("thrombosis", 10)>>),
         Title(<<TTok("umbilical", 9), TTok("arterial", 8), TTok("catheter", 8),
                 TTok("thrombosis", 10), TTok("outcomes", 8)>>),
         Title(<<TTok("quantum", 7), TTok("gravity", 7)>>),
         Title(<<TTok("art", 3), TTok("risk", 4)>>),
         Title(<<TTok("on", 2), TTok("it", 2)>>),
         Title(<<>>),
         [t |-> "empty", toks |-> <<>>],
         [t |-> "absent", toks |-> <<>>]}
      Parts(y, m, d) == [y |-> y, m |-> m, d |-> d]
      CrossrefDates ==
        {<<Parts(0, 0, 0), Parts(0, 0, 0), Parts(0, 0, 0), Parts(0, 0, 0)>>,
         <<Parts(0, 0, 0), Parts(0, 0, 0), Parts(2021, 3, 0), Parts(2020, 1, 5)>>,
         <<Parts(2022, 4, 9), Parts(2022, 0, 0), Parts(2021, 3, 0),
           Parts(2020, 1, 5)>>}
      Given(g, f) == [given |-> g, family |-> f]
      CrossrefAuthorLists ==
        {[t |-> "absent", v |-> <<>>],
         ArrayList(<<Given(<<>>, <<>>), Given(<<>>, <<Tok("x", "UPPER", 1)>>)>>),
         ArrayList(<<Given(<<Tok("renjini", "Cap", 7)>>, <<Tok("lalitha", "Cap", 7)>>),
                     Given(<<>>, <<Tok("consortium", "Cap", 10)>>)>>)}
  IN {[kind |-> k, message |-> NoMessage] : k \in Failures}
     \cup {[kind |-> "ok", message |-> [author |-> a, dates |-> d, title |-> t]] :
             a \in CrossrefAuthorLists, d \in CrossrefDates, t \in Titles}

(***************************************************************************)
(* State machine: the process is idle, runs one operation on inputs it is  *)
(* handed (pc names the operation, args its inputs, ret its result), and   *)
(* returns to idle.                                                        *)
(***************************************************************************)
Init ==
  /\ now = BaseYear
  /\ pc = "idle"
  /\ args = <<>>
  /\ ret = <<>>

Return ==
  /\ pc # "idle"
  /\ pc' = "idle"
  /\ args' = <<>>
  /\ ret' = <<>>
  /\ UNCHANGED now

(* sanitizeDocumentDate(raw, sections, force) *)
Sanitize ==
  /\ pc = "idle"
  /\ \E raw \in RawDates(now), t \in Texts, force \in BOOLEAN :
       /\ pc' = "sanitize"
       /\ args' = [raw |-> raw, t |-> t, force |-> force]
       /\ ret' = sanitizeDocumentDate(raw, t, force, now)
  /\ UNCHANGED now

(* the safety pass: sanitizeDocumentDate applied to its own result with the
   same sections and flag *)
Resanitize ==
  /\ pc = "sanitize"
  /\ pc' = "resanitize"
  /\ args' = [raw |-> args.raw, t |-> args.t, force |-> args.force, first |-> ret]
  /\ ret' = sanitizeDocumentDate(ret, args.t, args.force, now)
  /\ UNCHANGED now

(* parseNumericDate(s) *)
ParseNumeric ==
  /\ pc = "idle"
  /\ \E s \in NumStrings :
       /\ pc' = "numeric"
       /\ args' = s
       /\ ret' = parseNumericDate(s)
  /\ UNCHANGED now

(* chooseField(cands, fitness) *)
Choose ==
  /\ pc = "idle"
  /\ \E cands \in CandLists, fitness \in Fitnesses :
       /\ pc' = "choose"
       /\ args' = [cands |-> cands, fitness |-> fitness]
       /\ ret' = chooseField(cands, fitness)
  /\ UNCHANGED now

FuseWith(in) ==
  /\ pc' = "fuse"
  /\ args' = in
  /\ ret' = fuseCandidates(in.base, in.parser, in.llm, in.sections, now)
  /\ UNCHANGED now

(* fuseCandidates(base, parser, llm, sections): inputs that vary the two date
   candidates, the header flag and the text *)
FuseDatesCase ==
  /\ pc = "idle"
  /\ \/ \E pd \in FuseDates(now), dfh \in BOOLEAN,
           ld \in FuseDates(now) \cup {NumDate}, sec \in DateSections :
          FuseWith(In(EmptyBase, Parser("heuristic", ArrayList(<<KarlaAbela>>), pd, dfh),
                      [EmptyLLM EXCEPT !.document_date = ld], sec))
     \/ \E bd \in FuseDates(now), ld \in FuseDates(now), sec \in DateSections :
          FuseWith(In([EmptyBase EXCEPT !.document_date = bd], NoParser,
                      [EmptyLLM EXCEPT !.document_date = ld], sec))

(* fuseCandidates: inputs that vary the two author lists and the parser *)
FuseAuthorsCase ==
  /\ pc = "idle"
  /\ \/ \E m \in {"authority", "grobid"}, pa \in AuthorLists,
           la \in LLMAuthorLists :
          FuseWith(In(EmptyBase, Parser(m, pa, NullDate, FALSE),
                      [EmptyLLM EXCEPT !.authors = la], EmptySections))
     \/ \E ba \in AuthorLists :
          FuseWith(In([EmptyBase EXCEPT !.authors = ba], NoParser,
                      [EmptyLLM EXCEPT !.authors = ArrayList(<<KarlaAbela>>)],
                      EmptySections))

(* fuseCandidates: inputs that vary the shape of the LLM result and the cues
   of the text *)
FuseShapesCase ==
  /\ pc = "idle"
  /\ \/ \E p \in {NoParser, UnstructuredNoCands}, sec \in TypeSections :
          FuseWith(In(EmptyBase, p, NoLLM, sec))
     \/ \E p \in {NoParser, UnstructuredNoCands}, dt \in DocTypes, su \in Summaries,
           ms \in {NullText, TextVal("num", 0, FALSE), TextVal("str", 40, TRUE)},
           sec \in TypeSections :
          FuseWith(In(EmptyBase, p,
                      [EmptyLLM EXCEPT !.document_type = dt, !.summary = su,
                                       !.methods_summary = ms,
                                       !.findings_summary = ms], sec))

Fuse == FuseDatesCase \/ FuseAuthorsCase \/ FuseShapesCase

ParseWith(raw, info, resp) ==
  /\ pc' = "pdf"
  /\ args' = [raw |-> raw, info |-> info, resp |-> resp]
  /\ ret' = parseWithPdfParse(raw, info, resp, now)
  /\ UNCHANGED now

(* parseWithPdfParse: texts that vary the lines after the title *)
ParseWrapCase ==
  /\ pc = "idle"
  /\ \E raw \in SeqsUpTo(WrapLines, MaxHeaderLines) :
       ParseWith(raw, NoCreationDate, [kind |-> "network", message |-> NoMessage])

(* parseWithPdfParse: texts that vary the lines of the author zone *)
ParseNamesCase ==
  /\ pc = "idle"
  /\ \E v \in SeqsUpTo(NameLines, MaxNameLines) :
       ParseWith(<<HeaderLine.TitleLine>> \o v \o <<HeaderLine.AbstractLine>>,
                 NoCreationDate,
                 [kind |-> "network", message |-> NoMessage])

(* parseWithPdfParse: texts that vary the dates and the CreationDate *)
ParseDatesCase ==
  /\ pc = "idle"
  /\ \E raw \in SeqsUpTo(DateLines, MaxDateLines),
        info \in {NoCreationDate, [t |-> "D", y |-> 2024, m |-> 1, d |-> 1]} :
       ParseWith(raw, info, [kind |-> "network", message |-> NoMessage])

(* parseWithPdfParse: texts with and without a DOI, and the response of the
   lookup *)
ParseAuthorityCase ==
  /\ pc = "idle"
  /\ \E raw \in LET h == HeaderLine
                 IN {<<h.TitleLine, h.DoiLine, h.HicksQureshi, h.ReceivedMDY>>,
                     <<h.TitleLine, h.HicksQureshi, h.ReceivedMDY>>,
                     <<h.TitleLine, h.DoiLine>>},
        info \in CreationDates, resp \in Responses :
       ParseWith(raw, info, resp)

(* parseWithPdfParse: texts that vary the number of lines between the title
   and a stop cue or a dated line *)
ParseZoneCase ==
  /\ pc = "idle"
  /\ \E k \in 0..MaxZoneRun,
        tail \in {HeaderLine.AbstractLine, HeaderLine.PublishedMDY,
                  HeaderLine.BareDMY} :
       ParseWith(<<HeaderLine.TitleLine>> \o [i \in 1..k |-> HeaderLine.HicksQureshi]
                   \o <<tail>>,
                 NoCreationDate, [kind |-> "network", message |-> NoMessage])

(* findRankedDate(header, full): full varies the dated lines, header is the
   text up to one of its line ends (headerText is a prefix of the text) *)
FindRankedCase ==
  /\ pc = "idle"
  /\ \E full \in SeqsUpTo(DateLines, MaxDateLines) :
       \E h \in 0..Len(full) :
         /\ pc' = "ranked"
         /\ args' = [header |-> SubSeq(full, 1, h), full |-> full]
         /\ ret' = findRankedDate(SubSeq(full, 1, h), full, now)
  /\ UNCHANGED now

(* fetchCrossref(doi) meeting the response resp *)
FetchCrossref ==
  /\ pc = "idle"
  /\ \E resp \in Responses :
       /\ pc' = "fetch"
       /\ args' = resp
       /\ ret' = fetchCrossref(resp)
  /\ UNCHANGED now

(* the operations of the ensemble module (ensemble.ts) *)
Next ==
  \/ Sanitize \/ Resanitize \/ ParseNumeric \/ Choose \/ Fuse \/ Return

Spec == Init /\ [][Next]_vars

(* the clock of the process (new Date().getFullYear()) moves into the next
   year between two invocations *)
Tick ==
  /\ pc \in {"fuseOnce", "rankOnce"}
  /\ now < BaseYear + MaxClockYears
  /\ now' = now + 1
  /\ UNCHANGED <<pc, args, ret>>

(* a first invocation of fuseCandidates or of findRankedDate; at is the year
   of the clock when it runs *)
InvokeCore ==
  /\ pc = "idle"
  /\ \/ \E pd \in FuseDates(now), dfh \in BOOLEAN,
           ld \in {NullDate, Iso(now + 2, NONE, NONE)},
           sec \in {EmptySections, Sec(<<"published", "mdy">>, <<>>)} :
          LET in == In(EmptyBase,
                       Parser("heuristic", ArrayList(<<KarlaAbela>>), pd, dfh),
                       [EmptyLLM EXCEPT !.document_date = ld], sec)
          IN /\ pc' = "fuseOnce"
             /\ args' = [in |-> in, at |-> now]
             /\ ret' = fuseCandidates(in.base, in.parser, in.llm, in.sections, now)
     \/ \E full \in SeqsUpTo({HeaderLine.PublishedSoon, HeaderLine.PublishedMDY,
                               HeaderLine.BareDMY}, 2) :
          /\ pc' = "rankOnce"
          /\ args' = [in |-> full, at |-> now]
          /\ ret' = findRankedDate(full, full, now)
  /\ UNCHANGED now

(* the second invocation, with the arguments of the first *)
InvokeAgain ==
  /\ \/ /\ pc = "fuseOnce"
        /\ pc' = "fuseTwice"
        /\ ret' = fuseCandidates(args.in.base, args.in.parser, args.in.llm,
                                 args.in.sections, now)
     \/ /\ pc = "rankOnce"
        /\ pc' = "rankTwice"
        /\ ret' = findRankedDate(args.in, args.in, now)
  /\ args' = [in |-> args.in, at |-> args.at, first |-> ret]
  /\ UNCHANGED now

(* two invocations of the core while the clock runs *)
NextClock == InvokeCore \/ Tick \/ InvokeAgain \/ Return

SpecClock == Init /\ [][NextClock]_vars

(* the operations of the PDF parser (parsers/pdf.ts, parsers/crossref.ts) *)
NextPdf ==
  \/ ParseWrapCase \/ ParseNamesCase \/ ParseDatesCase \/ ParseAuthorityCase
  \/ ParseZoneCase \/ FindRankedCase \/ FetchCrossref \/ Return

SpecPdf == Init /\ [][NextPdf]_vars

(***************************************************************************)
(* The LLM providers (llm/providers/anthropic.ts, openai.ts, ollama.ts).   *)
(* During a call pc is the position in callJSON ("request": the request is *)
(* in flight, "sleep": the backoff wait, "returned", "thrown"), args holds *)
(* the provider called and ret the locals of the call: the loop index i,   *)
(* the requests made, the waits slept, the last error caught and the error *)
(* thrown.                                                                 *)
(***************************************************************************)
maxRetries == 3

BackoffBase == 700

JitterSpan == 300

BackoffCap == 5000

Providers == {"anthropic", "openai", "ollama"}

(* an error of the API client: err.status, err.code, err.headers["x-should-retry"] *)
ApiError(status, code, shouldRetry) ==
  [status |-> status, code |-> code, shouldRetry |-> shouldRetry]

NoError == ApiError(NONE, "", FALSE)

(* the errors the requests of the model fail with: their statuses (NONE is
   an error without a status) and their codes *)
ApiErrors ==
  {ApiError(st, c, h) :
     st \in {NONE, 400, 401, 404, 429, 499, 500, 502, 503, 504, 522, 525, 529, 599, 600},
     c \in {"", "ETIMEDOUT", "econnreset", "EAI_AGAIN", "ENETUNREACH", "ENOTFOUND", "CONFIG"},
     h \in BOOLEAN}

isRetryable_Always(err) == TRUE

isRetryable(err) ==
  LET (* String(err.code).toUpperCase() *)
      code == IF err.code = "econnreset" THEN "ECONNRESET" ELSE err.code
  IN \/ err.status = 429
     \/ err.status >= 500 /\ err.status < 600
     \/ err.status \in {522, 525, 529}
     \/ code \in {"ETIMEDOUT", "ECONNRESET", "EAI_AGAIN", "ENETUNREACH"}
     \/ err.shouldRetry

(* jitter is Math.floor(Math.random() * 300) *)
withBackoffDelay(attempt, jitter) ==
  LET base == BackoffBase * 2 ^ attempt
  IN IF base + jitter <= BackoffCap THEN base + jitter ELSE BackoffCap

(* provider.callJSON(prompt, sys) is entered *)
CallJSON ==
  /\ pc = "idle"
  /\ \E p \in Providers :
       /\ pc' = "request"
       /\ args' = [provider |-> p]
       /\ ret' = [i |-> 0, requests |-> 0, waits |-> <<>>,
                  err |-> NoError, thrown |-> NoError]
  /\ UNCHANGED now

(* one pass of the loop of AnthropicProvider.callJSON: the request succeeds
   and the parsed text is returned, or it fails and the error is caught *)
AnthropicAttempt ==
  /\ pc = "request"
  /\ args.provider = "anthropic"
  /\ \/ /\ ret.i <= maxRetries
        /\ \/ /\ pc' = "returned"
              /\ ret' = [ret EXCEPT !.requests = @ + 1]
           \/ \E err \in ApiErrors :
                IF ret.i < maxRetries /\ isRetryable(err)
                  THEN /\ pc' = "sleep"
                       /\ ret' = [ret EXCEPT !.requests = @ + 1, !.err = err]
                  ELSE /\ pc' = "thrown"
                       /\ ret' = [ret EXCEPT !.requests = @ + 1, !.err = err,
                                             !.thrown = err]
     \/ /\ ret.i > maxRetries
        /\ pc' = "thrown"
        /\ ret' = [ret EXCEPT !.thrown = ApiError(NONE, "exhausted retries", FALSE)]
  /\ UNCHANGED <<now, args>>

(* await sleep(withBackoffDelay(i)); continue *)
Sleep ==
  /\ pc = "sleep"
  /\ \E jitter \in {0, JitterSpan - 1} :
       ret' = [ret EXCEPT !.waits = Append(@, withBackoffDelay(ret.i, jitter)),
                          !.i = @ + 1]
  /\ pc' = "request"
  /\ UNCHANGED <<now, args>>

(* OpenAIProvider.callJSON: one request; its error rejects the call *)
OpenAIAttempt ==
  /\ pc = "request"
  /\ args.provider = "openai"
  /\ \/ /\ pc' = "returned"
        /\ ret' = [ret EXCEPT !.requests = @ + 1]
     \/ \E err \in ApiErrors :
          /\ pc' = "thrown"
          /\ ret' = [ret EXCEPT !.requests = @ + 1, !.err = err, !.thrown = err]
  /\ UNCHANGED <<now, args>>

(* OllamaProvider.callJSON: one request; its error rejects the call *)
OllamaAttempt ==
  /\ pc = "request"
  /\ args.provider = "ollama"
  /\ \/ /\ pc' = "returned"
        /\ ret' = [ret EXCEPT !.requests = @ + 1]
     \/ \E err \in ApiErrors :
          /\ pc' = "thrown"
          /\ ret' = [ret EXCEPT !.requests = @ + 1, !.err = err, !.thrown = err]
  /\ UNCHANGED <<now, args>>

(* the promise of callJSON is settled and the caller goes on *)
Settle ==
  /\ pc \in {"returned", "thrown"}
  /\ pc' = "idle"
  /\ args' = <<>>
  /\ ret' = <<>>
  /\ UNCHANGED now

NextLLM ==
  CallJSON \/ AnthropicAttempt \/ Sleep \/ OpenAIAttempt \/ OllamaAttempt \/ Settle

SpecLLM == Init /\ [][NextLLM]_vars

(* every request made is answered or fails, and every timer set fires *)
FairLLM ==
  /\ SpecLLM
  /\ WF_vars(AnthropicAttempt) /\ WF_vars(OpenAIAttempt) /\ WF_vars(OllamaAttempt)
  /\ WF_vars(Sleep)

(***************************************************************************)
(* The pipelines: the inline pipeline of cli.ts ("cli"), runPipeline of    *)
(* the CLI entry (errors.ts, "runPipeline") and runPipeline of the backend *)
(* API (unnamed/part_003, "api").  During a run pc is the stage, args the  *)
(* options, and ret the locals: parsed (the parser whose result is held,   *)
(* "none" for null), tried (the parsers invoked, with their outcomes),     *)
(* ensembles (the runs of runLLMEnsemble with provider, concurrency and    *)
(* outcome), err (the error caught from the primary ensemble), thrown (the *)
(* error the run rejects with) and written (the fused output was given     *)
(* out).                                                                   *)
(***************************************************************************)
(* const transient = [522, 525, 500, 502, 503, 504, 529, 429].includes(status),
   where status = e?.status ?? 0 *)
transient(err) == err.status \in {522, 525, 500, 502, 503, 504, 529, 429}

(* the errors the ensembles of the model reject with *)
EnsembleErrors ==
  {ApiError(st, c, FALSE) :
     st \in {NONE, 400, 429, 500, 502, 503, 504, 522, 525, 529, 599},
     c \in {"", "ETIMEDOUT"}}

(* the pipeline is entered and the PDF exists *)
StartPipeline ==
  /\ pc = "idle"
  /\ \E entry \in {"cli", "runPipeline", "api"}, g \in BOOLEAN, u \in BOOLEAN,
        p \in Providers, mc \in {1, 3} :
       /\ entry # "cli" => mc = 3
       /\ args' = [entry |-> entry, grobidUrl |-> g, unstructuredUrl |-> u,
                   provider |-> p, maxConcurrency |-> mc]
  /\ pc' = "grobid"
  /\ ret' = [parsed |-> "none", tried |-> <<>>, ensembles |-> <<>>,
             err |-> NoError, thrown |-> NoError, written |-> FALSE]
  /\ UNCHANGED now

(* try { if (opts.grobidUrl) parsed = await parseWithGrobid(...) } catch {} *)
TryGrobid ==
  /\ pc = "grobid"
  /\ IF args.grobidUrl
       THEN \E outcome \in {"result", "null", "throw"} :
              ret' = [ret EXCEPT
                        !.parsed = IF outcome = "result" THEN "grobid" ELSE @,
                        !.tried = Append(@, [parser |-> "grobid", outcome |-> outcome])]
       ELSE ret' = ret
  /\ pc' = "unstructured"
  /\ UNCHANGED <<now, args>>

TryUnstructured_Always ==
  /\ pc = "unstructured"
  /\ IF args.unstructuredUrl
       THEN \E outcome \in {"result", "null", "throw"} :
              ret' = [ret EXCEPT
                        !.parsed = IF outcome = "result" THEN "unstructured" ELSE @,
                        !.tried = Append(@, [parser |-> "unstructured", outcome |-> outcome])]
       ELSE ret' = ret
  /\ pc' = "pdf-parse"
  /\ UNCHANGED <<now, args>>

(* if (!parsed && opts.unstructuredUrl) { try { parsed = await
   parseWithUnstructured(...) } catch {} } *)
TryUnstructured ==
  /\ pc = "unstructured"
  /\ IF ret.parsed = "none" /\ args.unstructuredUrl
       THEN \E outcome \in {"result", "null", "throw"} :
              ret' = [ret EXCEPT
                        !.parsed = IF outcome = "result" THEN "unstructured" ELSE @,
                        !.tried = Append(@, [parser |-> "unstructured", outcome |-> outcome])]
       ELSE ret' = ret
  /\ pc' = "pdf-parse"
  /\ UNCHANGED <<now, args>>

(* if (!parsed) parsed = await parseWithPdfParse(pdfPath): outside any try,
   so that an error of reading the file rejects the run *)
RunPdfParse ==
  /\ pc = "pdf-parse"
  /\ IF ret.parsed = "none"
       THEN \/ /\ pc' = "llm"
               /\ ret' = [ret EXCEPT
                            !.parsed = "pdf-parse",
                            !.tried = Append(@, [parser |-> "pdf-parse", outcome |-> "result"])]
            \/ /\ pc' = "failed"
               /\ ret' = [ret EXCEPT
                            !.tried = Append(@, [parser |-> "pdf-parse", outcome |-> "throw"]),
                            !.thrown = ApiError(NONE, "ENOENT", FALSE)]
       ELSE pc' = "llm" /\ ret' = ret
  /\ UNCHANGED <<now, args>>

(* llm = await runLLMEnsemble(provider, parsed.sections, hints, limit): the
   two calls of callJSON under Promise.all; a and b are their outcomes and
   the ensemble rejects with the error of a call that failed *)
RunEnsemble ==
  /\ pc = "llm"
  /\ \E a \in {NoError} \cup EnsembleErrors, b \in {NoError} \cup EnsembleErrors :
       LET run(outcome) == [provider |-> args.provider,
                            concurrency |-> args.maxConcurrency,
                            outcome |-> outcome]
       IN IF a = NoError /\ b = NoError
            THEN /\ pc' = "fuse"
                 /\ ret' = [ret EXCEPT !.ensembles = Append(@, run("result"))]
            ELSE \E e \in {a, b} \ {NoError} :
                   /\ pc' = "caught"
                   /\ ret' = [ret EXCEPT !.ensembles = Append(@, run("throw")),
                                         !.err = e]
  /\ UNCHANGED <<now, args>>

(* the catch of the LLM stage: the failover of cli.ts and of the API
   pipeline, the bare rethrow of runPipeline of errors.ts *)
CatchEnsemble ==
  /\ pc = "caught"
  /\ IF args.entry # "runPipeline" /\ transient(ret.err)
       THEN \E a \in {NoError} \cup EnsembleErrors, b \in {NoError} \cup EnsembleErrors :
              LET run(outcome) == [provider |-> "openai", concurrency |-> 1,
                                   outcome |-> outcome]
              IN IF a = NoError /\ b = NoError
                   THEN /\ pc' = "fuse"
                        /\ ret' = [ret EXCEPT !.ensembles = Append(@, run("result"))]
                   ELSE \E e \in {a, b} \ {NoError} :
                          /\ pc' = "failed"
                          /\ ret' = [ret EXCEPT !.ensembles = Append(@, run("throw")),
                                                !.thrown = e]
       ELSE /\ pc' = "failed"
            /\ ret' = [ret EXCEPT !.thrown = ret.err]
  /\ UNCHANGED <<now, args>>

(* fuseCandidates(parsed.candidates, parsed, llm, parsed.sections) and the
   output of the fused metadata *)
FuseAndWrite ==
  /\ pc = "fuse"
  /\ pc' = "done"
  /\ ret' = [ret EXCEPT !.written = TRUE]
  /\ UNCHANGED <<now, args>>

(* the run has resolved or rejected *)
Finish ==
  /\ pc \in {"done", "failed"}
  /\ pc' = "idle"
  /\ args' = <<>>
  /\ ret' = <<>>
  /\ UNCHANGED now

NextPipeline ==
  \/ StartPipeline \/ TryGrobid \/ TryUnstructured \/ RunPdfParse
  \/ RunEnsemble \/ CatchEnsemble \/ FuseAndWrite \/ Finish

SpecPipeline == Init /\ [][NextPipeline]_vars

(***************************************************************************)
(* C1: sanitizeDocumentDate is idempotent: applying it to its own result   *)
(* (same sections, same forceAcceptDay) gives that result again, for every *)
(* raw date string, ISO-shaped or not, calendar-valid or not.              *)
(***************************************************************************)
C1_SanitizeIdempotent == pc = "resanitize" => ret = args.first

(* helpers of the claims about the fused date *)
FusedOk == pc = "fuse" /\ ~ret.threw

ArgText == args.sections.headerText \o args.sections.body

ParsedRaw ==
  IF args.parser.present /\ args.parser.document_date.k # "null"
    THEN args.parser.document_date
    ELSE args.base.document_date

LLMRaw == args.llm.document_date

CalendarDay(y, m, d) ==
  /\ m \in 1..12
  /\ d >= 1
  /\ d <= (IF m \in {1, 3, 5, 7, 8, 10, 12} THEN 31
           ELSE IF m # 2 THEN 30
           ELSE IF y % 400 = 0 \/ (y % 4 = 0 /\ y % 100 # 0) THEN 29 ELSE 28)

EvidencePhrase(t) ==
  \E i \in 1..Len(t), j \in 1..Len(t) :
    /\ t[i] \in {"posted", "tvposted", "published"}
    /\ t[j] \in {"mdy", "dmy", "isod"}
    /\ \/ j = i + 1
       \/ j = i + 2 /\ t[i + 1] \in {"colon", "dash"}

(***************************************************************************)
(* C2: the fused document_date has day precision only if                   *)
(* parser.meta.dateFromHeader is true or the header+body text holds an     *)
(* evidence phrase (cue verb, optional colon/dash, day-precision date).    *)
(***************************************************************************)
C2_DayNeedsEvidence ==
  (FusedOk /\ ret.document_date.value.k = "iso" /\ ret.document_date.value.d # NONE)
    => \/ args.parser.present /\ args.parser.dateFromHeader
       \/ EvidencePhrase(ArgText)

C2_Witness ==
  /\ FusedOk
  /\ args.parser.present /\ ~args.parser.dateFromHeader
  /\ args.parser.document_date = [k |-> "iso", y |-> 2024, m |-> 2, d |-> 29, p |-> "YMD"]
  /\ args.llm.document_date.k = "null"
  /\ ~EvidencePhrase(ArgText)
  /\ ret.document_date.value = [k |-> "iso", y |-> 2024, m |-> 2, d |-> NONE, p |-> "YM"]

(***************************************************************************)
(* C3: with parser.meta.dateFromHeader true and a calendar-valid           *)
(* YYYY-MM-DD parser date whose year is in [1900, currentYear+1], the      *)
(* fused date is that date unchanged and its provenance is not llm,        *)
(* whatever date string the LLM supplies and whether or not the text holds *)
(* an evidence phrase.                                                     *)
(***************************************************************************)
C3_HeaderDateKept ==
  (/\ FusedOk
   /\ args.parser.present /\ args.parser.dateFromHeader
   /\ args.parser.document_date.k = "iso"
   /\ args.parser.document_date.d # NONE
   /\ CalendarDay(args.parser.document_date.y, args.parser.document_date.m,
                  args.parser.document_date.d)
   /\ args.parser.document_date.y >= 1900
   /\ args.parser.document_date.y <= now + 1)
    => /\ ret.document_date.value = args.parser.document_date
       /\ ret.document_date.provenance # "llm"

C3_Witness ==
  /\ FusedOk
  /\ args.parser.present /\ args.parser.dateFromHeader
  /\ args.parser.document_date = [k |-> "iso", y |-> 2024, m |-> 2, d |-> 29, p |-> "YMD"]
  /\ args.llm.document_date = [k |-> "iso", y |-> 1900, m |-> 2, d |-> NONE, p |-> "YM"]
  /\ ~EvidencePhrase(ArgText)
  /\ ret.document_date.value = args.parser.document_date
  /\ ret.document_date.provenance = "heuristic"

(***************************************************************************)
(* C4 as stated: when both the parser and the LLM supply a date that       *)
(* survives sanitization, the fused date is the parser's and its           *)
(* provenance is not llm.                                                  *)
(***************************************************************************)
ParsedSan ==
  sanitizeDocumentDate(ParsedRaw, ArgText,
                       args.parser.present /\ args.parser.dateFromHeader, now)

LLMSan == sanitizeDocumentDate(LLMRaw, ArgText, FALSE, now)

BothSurvive == FusedOk /\ ParsedSan.k # "null" /\ LLMSan.k # "null"

PrecRank(v) == IF v.d # NONE THEN 3 ELSE IF v.m # NONE THEN 2 ELSE 1

AfterFinalPass(v) == IF v.m = NONE \/ v.m \in 1..12 THEN v ELSE NullDate

C5_Beats(cands, fitness, j, i) ==
  \/ fitness[cands[j].value] > fitness[cands[i].value]
  \/ /\ fitness[cands[j].value] = fitness[cands[i].value]
     /\ cands[j].confidence > cands[i].confidence

C5_IsTop(cands, fitness, i) ==
  \A j \in 1..Len(cands) : ~C5_Beats(cands, fitness, j, i)

C5_FirstTop(cands, fitness) ==
  CHOOSE i \in 1..Len(cands) :
    /\ C5_IsTop(cands, fitness, i)
    /\ \A j \in 1..(i - 1) : ~C5_IsTop(cands, fitness, j)

C5_ChooseFirstMax ==
  pc = "choose" => ret = args.cands[C5_FirstTop(args.cands, args.fitness)]

C5_Witness ==
  /\ pc = "choose"
  /\ Len(args.cands) = 3
  /\ args.fitness[args.cands[1].value] < args.fitness[args.cands[2].value]
  /\ args.fitness[args.cands[2].value] = args.fitness[args.cands[3].value]
  /\ args.cands[2].confidence = args.cands[3].confidence
  /\ args.cands[2].provenance # args.cands[3].provenance
  /\ ret = args.cands[2]

(***************************************************************************)
(* C6: fuseCandidates never throws, whatever the LLM result is (null or    *)
(* undefined object, absent or null fields, authors given as a joined      *)
(* string, non-string document_type, document_date or summary); every such *)
(* field degrades to a null value in the returned record.                  *)
(***************************************************************************)
C6_FuseNeverThrows ==
  pc = "fuse" =>
    /\ ~ret.threw
    /\ (~args.llm.present \/ args.llm.authors.t \in {"null", "str", "num"})
         => (ret.authors.provenance = "llm" => ret.authors.value.t = "null")
    /\ (~args.llm.present \/ args.llm.summary.t \in {"absent", "num"})
         => ret.summary.value.t = "absent"

(***************************************************************************)
(* C7: numeric disambiguation of A-sep-B-sep-Year (Year of the form 19xx   *)
(* or 20xx, as the pattern requires): A>12 and (Year, B, A) a calendar day *)
(* gives Year-B-A; else B>12 and (Year, A, B) a calendar day gives         *)
(* Year-A-B; else A in 1..12 gives the month-precision Year-A. So with A   *)
(* and B both <= 12 the result never has a day.                            *)
(***************************************************************************)
C7_CalendarDay(y, m, d) ==
  /\ m \in 1..12
  /\ d >= 1
  /\ d <= (IF m \in {1, 3, 5, 7, 8, 10, 12} THEN 31
           ELSE IF m # 2 THEN 30
           ELSE IF y % 400 = 0 \/ (y % 4 = 0 /\ y % 100 # 0) THEN 29 ELSE 28)

C7_NumericDisambiguation ==
  (pc = "numeric" /\ args.shape = "ABY" /\ args.c \in 1900..2099) =>
    /\ IF args.a > 12 /\ C7_CalendarDay(args.c, args.b, args.a)
         THEN ret = [k |-> "iso", y |-> args.c, m |-> args.b, d |-> args.a, p |-> "YMD"]
       ELSE IF args.b > 12 /\ C7_CalendarDay(args.c, args.a, args.b)
         THEN ret = [k |-> "iso", y |-> args.c, m |-> args.a, d |-> args.b, p |-> "YMD"]
       ELSE IF args.a \in 1..12
         THEN ret = [k |-> "iso", y |-> args.c, m |-> args.a, d |-> NONE, p |-> "YM"]
       ELSE TRUE
    /\ (args.a <= 12 /\ args.b <= 12) => ret.d = NONE

C7_Witness ==
  /\ pc = "numeric"
  /\ args = [shape |-> "ABY", a |-> 5, b |-> 6, c |-> 2023]
  /\ ret = [k |-> "iso", y |-> 2023, m |-> 5, d |-> NONE, p |-> "YM"]

(***************************************************************************)
(* C8: the fused document_date value is null or a string YYYY, YYYY-MM or  *)
(* YYYY-MM-DD whose year is in [1900, currentYear+1], whose month (if any) *)
(* is 01..12 and whose day (if any) exists in that month; a candidate with *)
(* year 1899 or currentYear+2 is rejected to null.                         *)
(***************************************************************************)
OutOfRange(raw) == raw.k = "null" \/ (raw.k = "iso" /\ raw.y \in {1899, now + 2})

C8_FusedDateWellFormed ==
  FusedOk =>
    LET v == ret.document_date.value
    IN /\ \/ v.k = "null"
          \/ /\ v.k = "iso"
             /\ v.y >= 1900 /\ v.y <= now + 1
             /\ v.m # NONE => v.m \in 1..12
             /\ v.d # NONE => (v.m # NONE /\ CalendarDay(v.y, v.m, v.d))
       /\ (OutOfRange(ParsedRaw) /\ OutOfRange(LLMRaw)) => v.k = "null"

C8_Witness ==
  /\ FusedOk
  /\ args.parser.present
  /\ args.parser.document_date = [k |-> "iso", y |-> now + 2, m |-> 2, d |-> 29, p |-> "YMD"]
  /\ args.llm.document_date = [k |-> "iso", y |-> 1899, m |-> NONE, d |-> NONE, p |-> "Y"]
  /\ EvidencePhrase(ArgText)
  /\ ret.document_date.value.k = "null"

(***************************************************************************)
(* C9: the fused document_date never carries finer precision than the raw  *)
(* candidate it was derived from: a raw candidate naming only a year never *)
(* yields a month, one naming only year and month never yields a day.      *)
(***************************************************************************)
NamedRank(raw) == IF raw.p = "YMD" THEN 3 ELSE IF raw.p = "YM" THEN 2 ELSE 1

DerivedFrom == IF ret.document_date.provenance = "llm" THEN LLMRaw ELSE ParsedRaw

C9_NoFabricatedPrecision ==
  (FusedOk /\ ret.document_date.value.k # "null")
    => PrecRank(ret.document_date.value) <= NamedRank(DerivedFrom)

(***************************************************************************)
(* C10 as stated: for any candidate author list (the parser's or the       *)
(* LLM's) that mixes person names with organisation strings, the fused     *)
(* authors list contains the person names (2-5 capitalised tokens, no      *)
(* organisation cue word, no document label; compared ignoring case) and   *)
(* contains no entry with an organisation cue word or a document label.    *)
(***************************************************************************)
HasCueOrLabel(e) ==
  \/ \E i \in 1..Len(e) : e[i].w \in ORG_WORDS
  \/ \E lab \in DOC_LABELS : Includes(Words(e), lab)

PersonName(e) ==
  /\ Len(e) >= 2 /\ Len(e) <= 5
  /\ \A i \in 1..Len(e) : e[i].c = "Cap"
  /\ ~HasCueOrLabel(e)

ParsedAuthorsRaw ==
  IF args.parser.present /\ args.parser.authors.t # "null"
    THEN args.parser.authors
    ELSE args.base.authors

FusedNames == IF ret.authors.value.t = "arr" THEN ret.authors.value.v ELSE <<>>

InFusedUpToCase(e) == \E i \in 1..Len(FusedNames) : Words(FusedNames[i]) = Words(e)

NoOrgInFused == \A i \in 1..Len(FusedNames) : ~HasCueOrLabel(FusedNames[i])

Parsed == pc = "pdf"

Range(q) == {q[i] : i \in 1..Len(q)}

(* line j belongs to the run of title-continuation lines that starts right
   after the chosen title line t *)
InRun(raw, t, j) ==
  /\ t >= 1 /\ j > t /\ j <= Len(raw)
  /\ \A k \in (t + 1)..j : looksLikeTitleContinuation(raw[k])

InZone(j) == ret.zoneStart <= j /\ j < ret.zoneEnd

(* an entry of the list that is a segment of the line, compared ignoring case *)
EmittedFrom(L, authors) ==
  \E k \in 1..Len(L.segs) : \E a \in Range(authors) : Words(a) = Words(L.segs[k])

PersonLines ==
  {HeaderLine.RenjiniLalitha, HeaderLine.HicksQureshi, HeaderLine.ByQureshi}

NameShaped(name) ==
  /\ Len(name) >= 2 /\ Len(name) <= 5
  /\ \A i \in 1..Len(name) : name[i].c \in {"Cap", "Init", "Hyph", "UPPER", "Mixed"}

C13_NamesArePersonShaped ==
  /\ Parsed => \A name \in Range(ret.authorsHeu) : NameShaped(name)
  /\ FusedOk => \A name \in Range(ret.authors.value.v) : NameShaped(name)

(***************************************************************************)
(* C14: every author list the program produces (the output of              *)
(* extractAuthorsHeuristic and the fused authors value) has no two entries *)
(* equal ignoring case and at most 24 entries.                             *)
(***************************************************************************)
UniqueIgnoringCase(list) ==
  \A i, j \in 1..Len(list) : i # j => Words(list[i]) # Words(list[j])

C14_AuthorListsUnique ==
  /\ Parsed => UniqueIgnoringCase(ret.authorsHeu) /\ Len(ret.authorsHeu) <= 24
  /\ FusedOk => /\ UniqueIgnoringCase(ret.authors.value.v)
                /\ Len(ret.authors.value.v) <= 24

(***************************************************************************)
(* C15: findRankedDate never returns a date whose year is below 1900 or    *)
(* above the current year + 1.                                             *)
(***************************************************************************)
C15_RankedYearInRange ==
  Parsed => \/ ret.ranked.k = "null"
            \/ ret.ranked.y >= 1900 /\ ret.ranked.y <= now + 1

(***************************************************************************)
(* C16: parseWithPdfParse uses the authority's authors and date only if    *)
(* the authority returned no title or at least 65% of the title's tokens   *)
(* of length >= 3 occur as substrings of the header text; otherwise both   *)
(* are discarded: the authors are the heuristic ones, the date the in-text *)
(* one (else the CreationDate) and method is "heuristic".                  *)
(***************************************************************************)
LongToks(title) == {i \in 1..Len(title.toks) : title.toks[i].n >= 3}

FoundToks(title, header) ==
  {i \in LongToks(title) : \E l \in 1..Len(header) : title.toks[i].w \in header[l].has}

TitleAgrees(title, header) ==
  \/ title.t \in {"absent", "empty"}
  \/ Cardinality(FoundToks(title, header)) * 100 >= 65 * Cardinality(LongToks(title))

HeuristicAuthors ==
  IF ret.authorsHeu = <<>> THEN NullList ELSE ArrayList(ret.authorsHeu)

CreationIso(info) == IF info.t = "D" THEN Iso(info.y, info.m, info.d) ELSE NullDate

TextOrCreationDate ==
  IF ret.ranked.k # "null" THEN ret.ranked ELSE CreationIso(args.info)

HeuristicOnly ==
  /\ ret.doc.method = "heuristic"
  /\ ret.doc.authors = HeuristicAuthors
  /\ ret.doc.document_date = TextOrCreationDate

C16_AuthorityNeedsTitleMatch ==
  (Parsed /\ ret.cr.present) =>
    /\ ret.doc.method = "authority" => TitleAgrees(ret.cr.title, args.raw)
    /\ ~TitleAgrees(ret.cr.title, args.raw) => HeuristicOnly

(* two of the three long tokens of the authority's title are in the header *)
C16_Witness ==
  /\ Parsed /\ ret.cr.present
  /\ Cardinality(LongToks(ret.cr.title)) = 3
  /\ Cardinality(FoundToks(ret.cr.title, args.raw)) = 2
  /\ ret.doc.method = "authority"
  /\ ret.doc.authors = ret.cr.authors /\ ret.doc.authors.t = "arr"
  /\ ret.doc.document_date = ret.cr.date /\ ret.doc.document_date.k = "iso"

(***************************************************************************)
(* C17: on a lookup failure (abort, network error, non-OK status, bad      *)
(* JSON, JSON of an unexpected shape) fetchCrossref resolves to null and   *)
(* does not throw, and parseWithPdfParse returns the heuristic candidates  *)
(* with method "heuristic".                                                *)
(***************************************************************************)
C17_LookupFailureIsNoData ==
  /\ (pc = "fetch" /\ args.kind \in Failures) =>
       ~ret.threw /\ ~ret.value.present
  /\ (Parsed /\ args.resp.kind \in Failures) => HeuristicOnly

(* a text with a DOI whose lookup fails, parsed to its heuristic authors *)
C17_Witness ==
  /\ Parsed /\ ret.doi /\ args.resp.kind = "badjson"
  /\ ret.doc.method = "heuristic"
  /\ ret.doc.authors.t = "arr"
  /\ ret.doc.document_date = Iso(2020, 1, 5)

(***************************************************************************)
(* C18: when the text has dates under several cue verbs, the selected date *)
(* is the one under the highest-ranked cue (Published > Posted > Accepted  *)
(* > Received), whatever the order of the cues in the text.                *)
(***************************************************************************)
CueRank(cue) ==
  CASE cue = "published" -> 4 [] cue = "posted" -> 3
    [] cue = "accepted" -> 2 [] cue = "received" -> 1 [] OTHER -> 0

(* the date a line gives under its cue, null if it gives none or one whose *)
(* year is outside [1900, currentYear+1]                                   *)
CueDate(L) ==
  LET iso == LineCand(L, 0, now).iso
  IN IF L.cue # "none" /\ iso.k # "null" /\ iso.y >= 1900 /\ iso.y <= now + 1
     THEN iso ELSE NullDate

C18_HighestCueWins ==
  Parsed =>
    \A i \in 1..Len(args.raw) :
      (/\ CueDate(args.raw[i]).k # "null"
       /\ \E j \in 1..Len(args.raw) :
            j # i /\ CueDate(args.raw[j]).k # "null"
       /\ \A j \in 1..Len(args.raw) :
            (j # i /\ CueDate(args.raw[j]).k # "null") =>
              CueRank(args.raw[j].cue) < CueRank(args.raw[i].cue))
      => ret.ranked = CueDate(args.raw[i])

(***************************************************************************)
(* C19: candidates.document_date of parseWithPdfParse is the accepted      *)
(* authority date if there is one, else the ranked in-text date, else the  *)
(* PDF CreationDate (D:YYYYMMDD as YYYY-MM-DD), else null.                 *)
(***************************************************************************)
AuthorityDate == IF ret.trusted THEN ret.cr.date ELSE NullDate

C19_DatePrecedence ==
  Parsed =>
    ret.doc.document_date =
      IF AuthorityDate.k # "null" THEN AuthorityDate
      ELSE IF ret.ranked.k # "null" THEN ret.ranked
      ELSE CreationIso(args.info)

(* the CreationDate is there and the in-text date is used ... *)
C19_Witness ==
  /\ Parsed /\ args.info.t = "D" /\ AuthorityDate.k = "null"
  /\ ret.ranked = Iso(2023, 5, NONE)
  /\ ret.doc.document_date = Iso(2023, 5, NONE)

(***************************************************************************)
(* C20 (as stated): when neither the parser nor the LLM supplies a usable  *)
(* value, fuseCandidates returns every field with value null and with the  *)
(* lowest confidence the field is ever given.                              *)
(***************************************************************************)
NothingUsable ==
  /\ FusedOk
  /\ args.base = EmptyBase
  /\ \/ ~args.parser.present
     \/ args.parser.authors = NullList /\ args.parser.document_date = NullDate
  /\ args.llm = EmptyLLM

LowestConfidences ==
  /\ ret.document_type.confidence = 60
  /\ ret.authors.confidence = 30
  /\ ret.document_date.confidence = 20
  /\ ret.summary.confidence = 50
  /\ ret.methods_summary.confidence = 50
  /\ ret.findings_summary.confidence = 50

ConfidenceFloors ==
  /\ ret.document_type.confidence >= 60
  /\ ret.authors.confidence >= 30
  /\ ret.document_date.confidence >= 20
  /\ ret.summary.confidence >= 50
  /\ ret.methods_summary.confidence >= 50
  /\ ret.findings_summary.confidence >= 50

NullButType ==
  /\ ret.authors.value = NullList
  /\ ret.document_date.value = NullDate
  /\ ret.summary.value = NullText
  /\ ret.methods_summary.value = NullText
  /\ ret.findings_summary.value = NullText

C20_WorstCaseAllNull ==
  NothingUsable =>
    /\ ret.document_type.value = "null"
    /\ NullButType
    /\ LowestConfidences

(***************************************************************************)
(* C20 (amended): when neither the parser nor the LLM supplies a usable    *)
(* value, fuseCandidates returns authors, document_date and the three      *)
(* summaries with value null, and document_type with the type guessed from *)
(* the text, which is never null; each of the six fields has the lowest    *)
(* confidence it is ever given (0.6, 0.3, 0.2, 0.5, 0.5, 0.5).             *)
(***************************************************************************)
C20_WorstCaseNullButType ==
  /\ FusedOk => ConfidenceFloors
  /\ NothingUsable =>
       /\ ret.document_type.value \in
            {"Preprint", "Conference Paper", "Journal Article", "Thesis",
             "Journal/Conference Article"}
       /\ NullButType
       /\ LowestConfidences

C20_Witness ==
  /\ NothingUsable
  /\ ~args.parser.present
  /\ ret.document_type.value = "Journal/Conference Article"
  /\ ret.authors.value = NullList

(***************************************************************************)
(* C28: if at least one of the two date candidates (parser or LLM) is a    *)
(* calendar-valid date with year in [1900, currentYear+1], the fused       *)
(* document_date value is not null: a candidate that fails the final       *)
(* sanitization pass never displaces a valid candidate of the other source.*)
(***************************************************************************)
ValidCandidate(raw) ==
  /\ raw.k = "iso"
  /\ raw.y >= 1900 /\ raw.y <= now + 1
  /\ raw.m # NONE => raw.m \in 1..12
  /\ raw.d # NONE => (raw.m # NONE /\ CalendarDay(raw.y, raw.m, raw.d))

C28_ValidCandidateSurvives ==
  (FusedOk /\ (ValidCandidate(ParsedRaw) \/ ValidCandidate(LLMRaw)))
    => ret.document_date.value.k # "null"

(***************************************************************************)
(* C27: the author zone of sliceAuthorZone is the lines [start, end) with  *)
(* 0 <= start <= end <= number of lines, where end is the earlier of       *)
(* start+12 and the index of the first stop-cue line at or after start:    *)
(* the zone never has more than 12 lines and never holds a stop-cue line.  *)
(* (zoneStart and zoneEnd count lines from 1.)                             *)
(***************************************************************************)
StopCuesFrom(raw, start) ==
  {j \in start..Len(raw) : "stopCue" \in raw[j].f}

EarliestOf(S) == CHOOSE x \in S : \A y \in S : x <= y

C27_ZoneAtMostTwelveLines ==
  Parsed =>
    LET raw == args.raw
        start == ret.zoneStart
        end == ret.zoneEnd
    IN /\ 1 <= start /\ start <= end /\ end <= Len(raw) + 1
       /\ end = EarliestOf({start + ZoneLines, Len(raw) + 1}
                           \cup StopCuesFrom(raw, start))
       /\ end - start <= ZoneLines
       /\ \A j \in start..(end - 1) : "stopCue" \notin raw[j].f
       /\ ret.authorZone = SubSeq(raw, start, end - 1)

(***************************************************************************)
(* C26 as stated: parseWithPdfParse sets meta.dateFromHeader to true if    *)
(* and only if one of the first 120 non-reference-like header lines holds  *)
(* an explicit day-precision date (Month-Day-Year, Day-Month-Year or ISO)  *)
(* with valid calendar values, whatever the form and precision of the      *)
(* document_date.                                                          *)
(***************************************************************************)
HeaderTop(raw) == {i \in 1..Len(raw) : i <= HeaderDayLines}

(* an ISO date YYYY-MM-DD of the line, year 19xx or 20xx, that exists *)
ValidIsoDay(L) ==
  /\ L.date.shape = "NUM" /\ L.date.num.shape = "YMD"
  /\ L.date.num.a >= 1900 /\ L.date.num.a <= 2099
  /\ CalendarDay(L.date.num.a, L.date.num.b, L.date.num.c)

WrittenDay(L) == L.date.shape \in {"MDY", "DMY"}

Ranked == pc = "ranked"

(* the numeric strings of a window, in order *)
WindowNums(w) ==
  LET IsNum(it) == it.shape = "NUM"
      nums == SelectSeq(w, IsNum)
  IN [i \in 1..Len(nums) |-> nums[i].num]

WindowHoldsDate(w) ==
  \/ \E i \in 1..Len(w) : w[i].shape \in {"MDY", "DMY", "MY"}
  \/ parseNumericDateIn(WindowNums(w)).k # "null"

(* the cue occurrences of the scan whose window holds a date: [z, i] with
   z = 1 for the header and 2 for the text, i the line of the cue *)
HitCues ==
  {c \in ({1} \X (1..Len(args.header))) \cup ({2} \X (1..Len(args.full))) :
     LET zone == IF c[1] = 1 THEN args.header ELSE args.full
     IN zone[c[2]].cue # "none" /\ WindowHoldsDate(Window(zone, c[2]))}

FirstHitCue ==
  CHOOSE c \in HitCues :
    \A o \in HitCues : c[1] < o[1] \/ (c[1] = o[1] /\ c[2] <= o[2])

FirstOfShape(w, shape) ==
  w[CHOOSE i \in 1..Len(w) :
      w[i].shape = shape /\ \A j \in 1..(i - 1) : w[j].shape # shape]

(* the date of a window that holds one, by the order of the shapes *)
WindowDate(w) ==
  LET Holds(shape) == \E i \in 1..Len(w) : w[i].shape = shape
      Written(it) ==
        toISO(it.y, it.m, it.abbr, IF it.shape = "MY" THEN NONE ELSE it.d, now)
  IN IF Holds("MDY") THEN Written(FirstOfShape(w, "MDY"))
     ELSE IF Holds("DMY") THEN Written(FirstOfShape(w, "DMY"))
     ELSE IF Holds("MY") THEN Written(FirstOfShape(w, "MY"))
     ELSE parseNumericDateIn(WindowNums(w))

ScanFindsValidDate ==
  \E c \in HitCues :
    LET w == Window(IF c[1] = 1 THEN args.header ELSE args.full, c[2])
    IN \/ \E i \in 1..Len(w) :
            /\ w[i].shape \in {"MDY", "DMY", "MY"}
            /\ toISO(w[i].y, w[i].m, w[i].abbr,
                     IF w[i].shape = "MY" THEN NONE ELSE w[i].d, now).k # "null"
       \/ parseNumericDateIn(WindowNums(w)).k # "null"

(* some line of the line pass gives a candidate *)
LinePassFindsValidDate ==
  LET lines == args.header \o Slice(args.full, BodyLineCap)
  IN \E i \in 1..Len(lines) : LineCand(lines[i], i - 1, now).iso.k # "null"

C25_NullOnlyWithoutValidDate ==
  Ranked =>
    (ret.k = "null" <=> (~ScanFindsValidDate /\ ~LinePassFindsValidDate))

(***************************************************************************)
(* C23 as stated: two invocations of fuseCandidates (and of                *)
(* findRankedDate) with identical inputs return identical results,         *)
(* whenever they run; the result depends on no process-wide state outside  *)
(* the arguments.                                                          *)
(***************************************************************************)
InvokedTwice == pc \in {"fuseTwice", "rankTwice"}

InputYears ==
  IF pc = "fuseTwice"
    THEN {args.in.parser.document_date.y, args.in.llm.document_date.y,
          args.in.base.document_date.y}
    ELSE UNION {{args.in[i].date.y, args.in[i].date.num.a, args.in[i].date.num.c} :
                  i \in 1..Len(args.in)}

RetryableAsStated(err) ==
  \/ err.status = 429
  \/ err.status \in 500..599
  \/ err.code \in {"ETIMEDOUT", "ECONNRESET", "econnreset", "EAI_AGAIN", "ENETUNREACH"}
  \/ err.shouldRetry

C22_EveryProviderRetries ==
  (pc = "thrown" /\ RetryableAsStated(ret.thrown)) => ret.requests > 1

(***************************************************************************)
(* C29: AnthropicProvider.callJSON always terminates; it makes at most 4   *)
(* requests, retries only after a retryable error, rethrows a              *)
(* non-retryable error at once, rethrows the last error after the 4th      *)
(* failed request, and never waits more than 5000 ms between requests.     *)
(***************************************************************************)
AnthropicCall == pc \in {"request", "sleep", "returned", "thrown"} /\ args.provider = "anthropic"

C29_Bounded ==
  AnthropicCall =>
    /\ ret.requests <= 4
    /\ Len(ret.waits) <= 3
    (* a retry (a wait, or a further request) follows a retryable error only *)
    /\ (pc = "sleep" \/ (pc = "request" /\ ret.requests > 0)) =>
          /\ RetryableAsStated(ret.err)
          /\ ret.requests < 4
    (* what is thrown is the error of the last request *)
    /\ pc = "thrown" =>
          /\ ret.thrown = ret.err
          /\ ret.thrown \in ApiErrors
          /\ RetryableAsStated(ret.thrown) => ret.requests = 4
    /\ \A k \in 1..Len(ret.waits) : ret.waits[k] <= 5000

C29_AnthropicCallTerminates ==
  /\ []C29_Bounded
  /\ (AnthropicCall /\ pc = "request") ~> (pc \in {"returned", "thrown"})

C29_Witness ==
  /\ AnthropicCall
  /\ pc = "thrown"
  /\ ret.requests = 4
  /\ ret.waits = <<700, 1699, 2800>>
  /\ ret.thrown = ApiError(529, "", FALSE)

(***************************************************************************)
(* C21: the parse stage is a fallback chain.  GROBID is tried first when   *)
(* configured; Unstructured is tried only if GROBID produced no result and *)
(* it is configured; pdf-parse runs if and only if no earlier parser       *)
(* produced a result; a failure (exception or null) of GROBID or           *)
(* Unstructured never aborts the pipeline.                                 *)
(***************************************************************************)
InPipeline ==
  pc \in {"grobid", "unstructured", "pdf-parse", "llm", "caught", "fuse", "done", "failed"}

(* the parser was invoked in this run, and with this outcome *)
Tried(parser) == \E k \in 1..Len(ret.tried) : ret.tried[k].parser = parser

TriedWith(parser, outcome) ==
  \E k \in 1..Len(ret.tried) : ret.tried[k] = [parser |-> parser, outcome |-> outcome]

C21_ParseFallbackChain ==
  InPipeline =>
    (* the order of the chain, each parser at most once *)
    /\ \A j, k \in 1..Len(ret.tried) :
         j < k => <<ret.tried[j].parser, ret.tried[k].parser>> \in
                    {<<"grobid", "unstructured">>, <<"grobid", "pdf-parse">>,
                     <<"unstructured", "pdf-parse">>}
    /\ pc # "grobid" => (Tried("grobid") <=> args.grobidUrl)
    /\ pc \notin {"grobid", "unstructured"} =>
         (Tried("unstructured") <=>
            (args.unstructuredUrl /\ ~TriedWith("grobid", "result")))
    /\ pc \notin {"grobid", "unstructured", "pdf-parse"} =>
         (Tried("pdf-parse") <=>
            ~(TriedWith("grobid", "result") \/ TriedWith("unstructured", "result")))
    (* only pdf-parse can end the run in the parse stage *)
    /\ (pc = "failed" /\ ret.ensembles = <<>>) => TriedWith("pdf-parse", "throw")
    (* after a failure of GROBID or Unstructured the run goes on with the
       next parser, and holds a result when it reaches the LLM stage *)
    /\ (/\ pc \notin {"grobid", "unstructured", "pdf-parse"}
        /\ \/ TriedWith("grobid", "throw") \/ TriedWith("grobid", "null")
           \/ TriedWith("unstructured", "throw") \/ TriedWith("unstructured", "null")) =>
         (Tried("pdf-parse") \/ TriedWith("unstructured", "result"))
    /\ pc \in {"llm", "caught", "fuse", "done"} =>
         /\ ret.parsed # "none"
         /\ TriedWith(ret.parsed, "result")

C21_Witness ==
  /\ pc = "llm"
  /\ ret.parsed = "pdf-parse"
  /\ ret.tried = <<[parser |-> "grobid", outcome |-> "throw"],
                   [parser |-> "unstructured", outcome |-> "null"],
                   [parser |-> "pdf-parse", outcome |-> "result"]>>

(***************************************************************************)
(* C30: when the primary LLM ensemble fails with a transient status (429,  *)
(* 500, 502, 503, 504, 522, 525, 529) the pipeline runs the ensemble       *)
(* exactly once more, against the OpenAI fallback provider at concurrency  *)
(* 1, and fuses its result; a non-transient failure, or a failure of the   *)
(* fallback run, propagates to the caller and no fused output is written.  *)
(***************************************************************************)
PrimaryFailed == Len(ret.ensembles) >= 1 /\ ret.ensembles[1].outcome = "throw"

TransientAsStated(err) == err.status \in {429, 500, 502, 503, 504, 522, 525, 529}

C30_TransientFailureFailsOver ==
  (pc \in {"done", "failed"} /\ PrimaryFailed) =>
    IF TransientAsStated(ret.err)
      THEN /\ Len(ret.ensembles) = 2
           /\ ret.ensembles[2].provider = "openai"
           /\ ret.ensembles[2].concurrency = 1
           /\ ret.ensembles[2].outcome = "result" => (pc = "done" /\ ret.written)
           /\ ret.ensembles[2].outcome = "throw" => (pc = "failed" /\ ~ret.written)
      ELSE /\ Len(ret.ensembles) = 1
           /\ pc = "failed"
           /\ ret.thrown = ret.err
           /\ ~ret.written

====
